---------------------------- MODULE Spec2Model ----------------------------
(***************************************************************************)
(* A model of the WD MyCloud rsync recovery tool (src/rsync_restore.py):   *)
(* orphan reconciliation (scan, delete, cleanup CLI and wizard), canonical *)
(* path reconstruction, the symlink farm build and the restore driver.     *)
(*                                                                         *)
(* Strings are sequences of one-character strings, so that the string      *)
(* operations of the source (split, join, replace, lstrip, rstrip,         *)
(* fnmatch, LIKE) are computed character by character as Python and        *)
(* SQLite compute them.                                                    *)
(***************************************************************************)
EXTENDS Integers, Sequences, FiniteSets, TLC

(***************************************************************************)
(* String primitives                                                       *)
(***************************************************************************)

\* str.split(sep) for a one-character separator: always at least one part.
RECURSIVE SplitSep(_, _)
SplitSep(s, c) ==
    IF \A i \in 1..Len(s) : s[i] # c
    THEN <<s>>
    ELSE LET i == CHOOSE k \in 1..Len(s) :
                      s[k] = c /\ \A j \in 1..(k - 1) : s[j] # c
         IN  <<SubSeq(s, 1, i - 1)>> \o SplitSep(SubSeq(s, i + 1, Len(s)), c)

\* sep.join(parts)
RECURSIVE JoinSep(_, _)
JoinSep(parts, c) ==
    IF parts = <<>> THEN <<>>
    ELSE IF Len(parts) = 1 THEN parts[1]
    ELSE parts[1] \o <<c>> \o JoinSep(Tail(parts), c)

\* str.replace(old, new) for a non-empty old: every non-overlapping
\* occurrence, left to right.
RECURSIVE StrReplace(_, _, _)
StrReplace(s, old, new) ==
    IF Len(s) < Len(old) THEN s
    ELSE IF SubSeq(s, 1, Len(old)) = old
         THEN new \o StrReplace(SubSeq(s, Len(old) + 1, Len(s)), old, new)
         ELSE <<s[1]>> \o StrReplace(Tail(s), old, new)

\* str.lstrip(chars)
RECURSIVE LStrip(_, _)
LStrip(s, cs) ==
    IF s # <<>> /\ s[1] \in cs THEN LStrip(Tail(s), cs) ELSE s

\* str.rstrip(chars): strips every trailing character that is in chars.
RECURSIVE RStrip(_, _)
RStrip(s, cs) ==
    IF s # <<>> /\ s[Len(s)] \in cs
    THEN RStrip(SubSeq(s, 1, Len(s) - 1), cs)
    ELSE s

\* t occurs in s starting at position i
OccursAt(s, t, i) ==
    /\ i >= 1
    /\ i + Len(t) - 1 <= Len(s)
    /\ SubSeq(s, i, i + Len(t) - 1) = t

\* fnmatch.fnmatch(s, p) on POSIX for patterns built from literals, '*'
\* (any run of characters, '/' included) and '?' (any one character).
RECURSIVE FnMatch(_, _)
FnMatch(s, p) ==
    IF p = <<>> THEN s = <<>>
    ELSE IF p[1] = "*"
         THEN FnMatch(s, Tail(p)) \/ (s # <<>> /\ FnMatch(Tail(s), p))
         ELSE IF s = <<>> THEN FALSE
              ELSE (p[1] = "?" \/ p[1] = s[1]) /\ FnMatch(Tail(s), Tail(p))

\* x in list
InList(x, list) == \E k \in 1..Len(list) : list[k] = x

\* the elements of a list
Elems(list) == {list[k] : k \in 1..Len(list)}

\* [x for x in list if Keep(x)] is written with SelectSeq where needed.

(***************************************************************************)
(* matches_pattern                                                         *)
(***************************************************************************)

\* One pattern of matches_pattern: the glob itself, or any leading run of
\* path components against the pattern with its trailing '/' and '*'
\* characters stripped.
MatchesOnePattern(path, pattern) ==
    \/ FnMatch(path, pattern)
    \/ LET parts == SplitSep(path, "/")
       IN  \E i \in 1..Len(parts) :
               FnMatch(JoinSep(SubSeq(parts, 1, i), "/"),
                       RStrip(pattern, {"/", "*"}))

matches_pattern(path, patterns) ==
    \E k \in 1..Len(patterns) : MatchesOnePattern(path, patterns[k])


(***************************************************************************)
(* State                                                                   *)
(***************************************************************************)

VARIABLES
    destFiles,          \* relative paths of the files in the destination tree
    readOnly,           \* destination files whose os.remove raises OSError
    canonical_paths,    \* the canonical path set handed to the scan
    defaults,           \* the lists held by DEFAULT_CLEANUP_CONFIG
    cfgFile,            \* the cleanup config file on disk
    config,             \* the config dict of the running cleanup
    scanArgs,           \* the tree and protect list the scan was called with
    scan_results,       \* the dict scan_destination_for_orphans returned
    orphans_to_delete,  \* the deletion list of the running cleanup
    delResult,          \* the delete_orphans call of the running cleanup
    review,             \* folders_to_review of the wizard
    reviewIdx,          \* the wizard's position in folders_to_review
    cpc,                \* position of the cleanup: idle, classify, confirm, done
    ret,                \* return code of the cleanup that finished
    runs,               \* cleanups started in this process
    orphan_paths,       \* the list handed to delete_orphans (direct calls)
    dryResult,          \* the direct dry-run call of delete_orphans
    realResult,         \* the direct real call of delete_orphans
    dbRows,             \* the rows of the metadata table, by id
    canon,              \* the call of get_canonical_paths_from_db
    blobs,              \* paths of the blobs in the blob store
    farm,               \* the farm tree: path (components) -> node
    sanitize_pipes,     \* argument of the running farm build
    limit,              \* argument of the running farm build
    cursor,             \* position of the build in its result set
    processed,          \* rows the build has taken from the cursor
    created,            \* symlinks the build has created
    skipped,            \* rows the build has skipped
    farmErrors,         \* rows the build has counted as errors
    fpc,                \* position of the build: idle, building, returned,
                        \* raised (an exception left it), hung
    rpc,                \* position of run_restore: idle, farm, launching,
                        \* reading, returned, raised
    restore_dry_run,    \* dry_run argument of the running restore
    retry_count,        \* argument of the running restore
    inRetry,            \* the restore is inside its retry loop
    attempt,            \* loop variable of the retry loop
    errors,             \* error list of the running run_rsync call
    linesRead,          \* output lines the running call has read
    return_code,        \* status the last run_rsync call returned
    monitorErrors,      \* monitor.errors
    attemptLog,         \* what each run_rsync call returned, in order
    result,             \* what run_restore returned
    monitor,            \* the progress fields of the RsyncMonitor
    child,              \* the child process of the running run_rsync
                        \* call: none, running, exited, terminated
    parseLog,           \* the direct calls of parse_rsync_progress
    cmdCall,            \* arguments and command line of a run_rsync call
    threadCall,         \* arguments and results of recommend_thread_count
    lock,               \* who holds monitor.lock: free, reader, logger
    rdPc,               \* where the thread that reads the child's output is
    rdLine,             \* the stripped line that thread is working on
    last_file_print,    \* run_rsync's last_file_print
    lgPc,               \* where the monitor's background thread is
    status_line,        \* the status line the background thread has built
    statusLog,          \* the status lines written so far
    accesses            \* the reads and writes of monitor fields made so
                        \* far: thread, kind, field, lock held or not

cleanupVars == <<canonical_paths, defaults, cfgFile, config, scanArgs,
                 scan_results,
                 orphans_to_delete, delResult, review, reviewIdx, cpc, ret,
                 runs>>
treeVars    == <<destFiles, readOnly>>
deleteVars  == <<orphan_paths, dryResult, realResult>>

dbVars      == <<dbRows, canon>>

farmVars    == <<blobs, farm, sanitize_pipes, limit, cursor, processed,
                 created, skipped, farmErrors, fpc>>

restoreVars == <<rpc, restore_dry_run, retry_count, inRetry, attempt, errors,
                 linesRead, return_code, monitorErrors, attemptLog, result,
                 monitor, child>>

pureVars == <<parseLog, cmdCall, threadCall>>

threadVars == <<lock, rdPc, rdLine, last_file_print, lgPc, status_line,
                statusLog, accesses>>

vars == <<treeVars, cleanupVars, deleteVars, dbVars, farmVars, restoreVars,
          pureVars, threadVars>>

\* What a cleanup, a direct delete, a path resolution and a farm build never
\* touch.
outsideCleanup == <<deleteVars, dbVars, farmVars, restoreVars, pureVars,
                    threadVars>>
outsideDelete  == <<cleanupVars, dbVars, farmVars, restoreVars, pureVars,
                    threadVars>>
outsidePaths   == <<treeVars, cleanupVars, deleteVars, farmVars, restoreVars,
                    pureVars, threadVars>>
outsideFarm    == <<treeVars, cleanupVars, deleteVars, pureVars, threadVars>>
outsideRestore == <<treeVars, cleanupVars, deleteVars, pureVars, threadVars>>
outsideParse   == <<treeVars, cleanupVars, deleteVars, dbVars, farmVars,
                    threadVars>>

(***************************************************************************)
(* Bounds and input pools                                                  *)
(***************************************************************************)

MaxDestFiles == 3   \* files in the destination tree
MaxReadOnly  == 1   \* destination files that cannot be removed
MaxPatterns  == 1   \* patterns per command-line pattern list
MaxRuns      == 2   \* cleanups run one after the other in one process
MaxList      == 2   \* length of a list handed to delete_orphans directly

\* os.sep on POSIX
OsSep == "/"

\* Destination files, in the order os.walk reports them (top-down: the
\* files of the root first, then one folder after the other).
DestWalkOrder ==
    << <<"r">>,
       <<"P", "/", "a">>, <<"P", "/", "j">>,
       <<"Q", "/", "j">> >>

DestPool == Elems(DestWalkOrder)

\* Canonical paths the database may hold.
CanonPool == { <<"P", "/", "a">>, <<"Q", "/", "j">> }

\* Patterns a user may give on the command line or keep in the file.
PatternPool == { <<"P", "/", "*">>, <<"*", "j">>, <<"*">> }

\* Folder names in sorted() order.
FolderOrder == << <<"P">>, <<"Q">> >>

\* Lists of at most n elements of S
RECURSIVE ListsUpTo(_, _)
ListsUpTo(S, n) ==
    IF n = 0 THEN { <<>> }
    ELSE LET shorter == ListsUpTo(S, n - 1)
         IN  shorter \cup { Append(l, x) : l \in shorter, x \in S }

BoundedSubsets(S, n) == { T \in SUBSET S : Cardinality(T) <= n }

(***************************************************************************)
(* scan_destination_for_orphans                                            *)
(***************************************************************************)

\* No scan was made yet.
NoScan == [files |-> {}, protect |-> <<>>]

EmptyResults ==
    [orphans |-> <<>>, protected |-> <<>>, matched |-> <<>>,
     by_folder |-> <<>>, folder_stats |-> <<>>]

\* rel_path.split(os.sep)[0] if os.sep in rel_path else ''
TopFolder(rel_path) ==
    IF \E i \in 1..Len(rel_path) : rel_path[i] = OsSep
    THEN SplitSep(rel_path, OsSep)[1]
    ELSE <<>>

\* rel_path.replace(os.sep, '/')
NormalizeSep(rel_path) == StrReplace(rel_path, <<OsSep>>, <<"/">>)

\* Faulty variant of ScanFile: the canonical set is consulted before the
\* protect patterns.
ScanFile_CanonicalFirst(results, rel_path, canonical, protect_patterns) ==
    IF NormalizeSep(rel_path) \in canonical
    THEN [results EXCEPT !.matched = Append(@, rel_path)]
    ELSE IF matches_pattern(rel_path, protect_patterns)
    THEN [results EXCEPT !.protected = Append(@, rel_path)]
    ELSE [results EXCEPT !.orphans = Append(@, rel_path)]

\* Faulty variant of ScanFile: no 'continue' after a canonical match, so a
\* matched file falls through to the orphan branch.
ScanFile_FallsThrough(results, rel_path, canonical, protect_patterns) ==
    IF matches_pattern(rel_path, protect_patterns)
    THEN [results EXCEPT !.protected = Append(@, rel_path)]
    ELSE IF NormalizeSep(rel_path) \in canonical
    THEN [results EXCEPT !.matched = Append(@, rel_path),
                         !.orphans = Append(@, rel_path)]
    ELSE [results EXCEPT !.orphans = Append(@, rel_path)]

\* The body of the walk's loop for one file.
ScanFile(results, rel_path, canonical, protect_patterns) ==
    LET top == TopFolder(rel_path)
        fs0 == results.folder_stats
        fs1 == IF top # <<>> /\ top \notin DOMAIN fs0
               THEN fs0 @@ (top :> [total |-> 0, orphans |-> 0,
                                    matched |-> 0, in_db |-> FALSE])
               ELSE fs0
        fs2 == IF top # <<>>
               THEN [fs1 EXCEPT ![top].total = @ + 1]
               ELSE fs1
        r   == [results EXCEPT !.folder_stats = fs2]
    IN  IF matches_pattern(rel_path, protect_patterns)
        THEN [r EXCEPT !.protected = Append(@, rel_path)]
        ELSE IF NormalizeSep(rel_path) \in canonical
        THEN [r EXCEPT
                !.matched = Append(@, rel_path),
                !.folder_stats =
                    IF top # <<>>
                    THEN [fs2 EXCEPT ![top].matched = @ + 1,
                                     ![top].in_db = TRUE]
                    ELSE fs2]
        ELSE [r EXCEPT
                !.orphans = Append(@, rel_path),
                !.folder_stats =
                    IF top # <<>>
                    THEN [fs2 EXCEPT ![top].orphans = @ + 1]
                    ELSE fs2,
                !.by_folder =
                    IF top # <<>>
                    THEN IF top \in DOMAIN @
                         THEN [@ EXCEPT ![top] = Append(@, rel_path)]
                         ELSE @ @@ (top :> <<rel_path>>)
                    ELSE @]

\* The files os.walk finds, in walk order.
Walk(files) == SelectSeq(DestWalkOrder, LAMBDA p : p \in files)

RECURSIVE ScanLoop(_, _, _, _)
ScanLoop(results, walk, canonical, protect_patterns) ==
    IF walk = <<>> THEN results
    ELSE ScanLoop(ScanFile(results, Head(walk), canonical, protect_patterns),
                  Tail(walk), canonical, protect_patterns)

scan_destination_for_orphans(files, canonical, protect_patterns) ==
    ScanLoop(EmptyResults, Walk(files), canonical, protect_patterns)

(***************************************************************************)
(* delete_orphans                                                          *)
(***************************************************************************)

NoCall ==
    [called |-> FALSE, dry_run |-> FALSE, paths |-> <<>>,
     before |-> {}, after |-> {}, deleted |-> 0, errors |-> 0]

\* os.remove(full_path) succeeds for a file that is there and removable.
RemoveSucceeds(files, ro, rel_path) ==
    rel_path \in files /\ rel_path \notin ro

\* Faulty variant of DeleteOne: the dry run removes the file too.
DeleteOne_IgnoresDryRun(acc, ro, rel_path, dry_run) ==
    IF RemoveSucceeds(acc.files, ro, rel_path)
    THEN [acc EXCEPT !.files = @ \ {rel_path}, !.deleted = @ + 1]
    ELSE [acc EXCEPT !.errors = @ + 1]

\* Faulty variant of DeleteOne: a failed removal is not counted.
DeleteOne_DropsError(acc, ro, rel_path, dry_run) ==
    IF dry_run
    THEN [acc EXCEPT !.deleted = @ + 1]
    ELSE IF RemoveSucceeds(acc.files, ro, rel_path)
         THEN [acc EXCEPT !.files = @ \ {rel_path}, !.deleted = @ + 1]
         ELSE acc

\* One pass of the loop of delete_orphans, from acc = [files, deleted,
\* errors].
DeleteOne(acc, ro, rel_path, dry_run) ==
    IF dry_run
    THEN [acc EXCEPT !.deleted = @ + 1]
    ELSE IF RemoveSucceeds(acc.files, ro, rel_path)
         THEN [acc EXCEPT !.files = @ \ {rel_path}, !.deleted = @ + 1]
         ELSE [acc EXCEPT !.errors = @ + 1]

RECURSIVE DeleteLoop(_, _, _, _)
DeleteLoop(acc, ro, paths, dry_run) ==
    IF paths = <<>> THEN acc
    ELSE DeleteLoop(DeleteOne(acc, ro, Head(paths), dry_run),
                    ro, Tail(paths), dry_run)

\* The call as a record: the tree before and after, and the returned pair.
delete_orphans(files, ro, paths, dry_run) ==
    LET out == DeleteLoop([files |-> files, deleted |-> 0, errors |-> 0],
                          ro, paths, dry_run)
    IN  [called |-> TRUE, dry_run |-> dry_run, paths |-> paths,
         before |-> files, after |-> out.files,
         deleted |-> out.deleted, errors |-> out.errors]

(***************************************************************************)
(* Path reconstruction: get_canonical_paths_from_db                        *)
(***************************************************************************)

\* SQL NULL in a text column: a value that is no string of characters.
SqlNull == <<"NULL">>

\* The table is a sequence of rows [name, parentID, contentID]; the id of a
\* row is its position (INTEGER PRIMARY KEY, from 1), and parentID 0 stands
\* for NULL: 'while current_id' ends the walk on None and on 0 alike.
NotCalled == [called |-> FALSE, hangs |-> FALSE, paths |-> {}]

\* name LIKE '%auth%|%' on lower-case names
LikeAuthPipe(name) ==
    \E i \in 1..Len(name) :
        /\ OccursAt(name, <<"a", "u", "t", "h">>, i)
        /\ \E j \in (i + 4)..Len(name) : name[j] = "|"

\* SELECT name FROM files WHERE name LIKE '%auth%|%' LIMIT 1: the first
\* matching row in rowid order; <<>> stands for None.
RootDir(table) ==
    IF \E i \in 1..Len(table) : LikeAuthPipe(table[i].name)
    THEN table[CHOOSE i \in 1..Len(table) :
                   /\ LikeAuthPipe(table[i].name)
                   /\ \A j \in 1..(i - 1) : ~LikeAuthPipe(table[j].name)].name
    ELSE <<>>

\* The ids the cursor of 'WHERE contentID IS NOT NULL' yields, in rowid order.
RECURSIVE IdsFrom(_, _)
IdsFrom(table, i) ==
    IF i > Len(table) THEN <<>>
    ELSE (IF table[i].contentID # SqlNull THEN <<i>> ELSE <<>>)
             \o IdsFrom(table, i + 1)

ContentCursor(table) == IdsFrom(table, 1)

\* The while loop that walks the parent chain.  parent_lookup holds every
\* row, so the loop visits more ancestors than there are rows only when it
\* is caught in a cycle of parentID links, and then it never ends.
RECURSIVE CanonWalk(_, _, _, _)
CanonWalk(table, path_parts, current_id, visited) ==
    IF current_id # 0 /\ current_id \in 1..Len(table)
    THEN IF visited = Len(table)
         THEN [diverges |-> TRUE, parts |-> path_parts]
         ELSE CanonWalk(table, <<table[current_id].name>> \o path_parts,
                        table[current_id].parentID, visited + 1)
    ELSE [diverges |-> FALSE, parts |-> path_parts]

\* rel_path of one row as get_canonical_paths_from_db computes it.
CanonRelPath(table, id) ==
    LET walk     == CanonWalk(table, <<table[id].name>>, table[id].parentID, 0)
        joined   == JoinSep(walk.parts, "/")
        root_dir == RootDir(table)
        stripped == IF root_dir # <<>>
                    THEN StrReplace(StrReplace(joined, root_dir \o <<"/">>,
                                               <<>>),
                                    root_dir, <<>>)
                    ELSE joined
    IN  [diverges |-> walk.diverges, rel_path |-> LStrip(stripped, {"/"})]

\* The call: it never returns when the walk of some row never ends.
get_canonical_paths_from_db(table) ==
    LET ids == Elems(ContentCursor(table))
    IN  [called |-> TRUE,
         hangs  |-> \E i \in ids : CanonRelPath(table, i).diverges,
         paths  |-> { CanonRelPath(table, i).rel_path : i \in
                        { k \in ids : ~CanonRelPath(table, k).diverges
                                      /\ CanonRelPath(table, k).rel_path # <<>> } }]

(***************************************************************************)
(* create_symlink_farm_streaming                                           *)
(***************************************************************************)

\* The source directory as the caller names it, and the working directory
\* os.path.abspath resolves it against.
SourceDir == <<"s">>
Cwd       == <<"/", "w">>

\* os.path.join of relative parts
PathJoin(parts) == JoinSep(parts, "/")

\* os.path.abspath of a relative path
AbsPath(path) == Cwd \o <<"/">> \o path

\* The components a path resolves through: empty ones do not count.
Components(path) == SelectSeq(SplitSep(path, "/"), LAMBDA c : c # <<>>)

\* The components of os.path.dirname(os.path.join(farm_dir, rel_path)),
\* below farm_dir: what stands before the last '/'.
DirComponents(rel_path) ==
    IF \A i \in 1..Len(rel_path) : rel_path[i] # "/"
    THEN <<>>
    ELSE LET last == CHOOSE i \in 1..Len(rel_path) :
                         /\ rel_path[i] = "/"
                         /\ \A j \in (i + 1)..Len(rel_path) : rel_path[j] # "/"
         IN  Components(SubSeq(rel_path, 1, last - 1))

DirNode  == [kind |-> "dir", target |-> <<>>, row |-> 0]
FileNode == [kind |-> "file", target |-> <<>>, row |-> 0]
LinkNode(target, id) == [kind |-> "link", target |-> target, row |-> id]

\* The while loop of the build that walks the parent chain (as CanonWalk).
RECURSIVE FarmWalk(_, _, _, _)
FarmWalk(table, path_parts, current_id, visited) ==
    IF current_id # 0 /\ current_id \in 1..Len(table)
    THEN IF visited = Len(table)
         THEN [diverges |-> TRUE, parts |-> path_parts]
         ELSE FarmWalk(table, <<table[current_id].name>> \o path_parts,
                       table[current_id].parentID, visited + 1)
    ELSE [diverges |-> FALSE, parts |-> path_parts]

\* A faulty FarmRelPath: the root-marker name is never stripped.
FarmRelPath_KeepsRoot(table, id, sanitize) ==
    LET walk   == FarmWalk(table, <<table[id].name>>, table[id].parentID, 0)
        joined == LStrip(JoinSep(walk.parts, "/"), {"/"})
    IN  [diverges |-> walk.diverges,
         rel_path |-> IF sanitize
                      THEN StrReplace(joined, <<"|">>, <<"-">>)
                      ELSE joined]

\* rel_path of one row as the build computes it.
FarmRelPath(table, id, sanitize) ==
    LET walk     == FarmWalk(table, <<table[id].name>>, table[id].parentID, 0)
        joined   == JoinSep(walk.parts, "/")
        root_dir == RootDir(table)
        stripped == IF root_dir # <<>>
                    THEN StrReplace(StrReplace(joined, root_dir \o <<"/">>,
                                               <<>>),
                                    root_dir, <<>>)
                    ELSE joined
        lstripped == LStrip(stripped, {"/"})
    IN  [diverges |-> walk.diverges,
         rel_path |-> IF sanitize
                      THEN StrReplace(lstripped, <<"|">>, <<"-">>)
                      ELSE lstripped]

\* The candidates of a content id, in the order they are tried.
BlobCandidates(content_id) ==
    << PathJoin(<<SourceDir, <<content_id[1]>>, content_id>>),
       PathJoin(<<SourceDir, content_id>>) >>

\* source_path: the first candidate that exists, <<>> for None.
ResolveBlob(store, content_id) ==
    LET cands == BlobCandidates(content_id)
    IN  IF cands[1] \in store THEN cands[1]
        ELSE IF cands[2] \in store THEN cands[2]
        ELSE <<>>

\* os.makedirs(dirs, exist_ok=True) raises OSError when a component
\* exists and is no directory.
MakeDirsFails(fs, dirs) ==
    \E k \in 1..Len(dirs) :
        /\ SubSeq(dirs, 1, k) \in DOMAIN fs
        /\ fs[SubSeq(dirs, 1, k)].kind # "dir"

MakeDirs(fs, dirs) ==
    LET new == { SubSeq(dirs, 1, k) : k \in 1..Len(dirs) } \ DOMAIN fs
    IN  fs @@ [d \in new |-> DirNode]

\* Treats a symlink at the path like any other entry: the row is skipped
\* and the symlink keeps its target.
PlaceLink_KeepsSymlink(st, rel_path, abs_source_path, id) ==
    LET dirs == DirComponents(rel_path)
        path == Components(rel_path)
        fs1  == MakeDirs(st.fs, dirs)
    IN  IF MakeDirsFails(st.fs, dirs)
        THEN [st EXCEPT !.errors = @ + 1]
        ELSE IF path \in DOMAIN fs1
        THEN [st EXCEPT !.fs = fs1, !.skipped = @ + 1]
        ELSE [st EXCEPT
                !.fs = fs1 @@ (path :> LinkNode(abs_source_path, id)),
                !.created = @ + 1]

\* The try block of the build for one row whose blob was found.  st is
\* [fs, created, skipped, errors].
PlaceLink(st, rel_path, abs_source_path, id) ==
    LET dirs == DirComponents(rel_path)
        path == Components(rel_path)
        fs1  == MakeDirs(st.fs, dirs)
        isdirpath == rel_path[Len(rel_path)] = "/"
    IN  IF MakeDirsFails(st.fs, dirs)
        THEN [st EXCEPT !.errors = @ + 1]
        ELSE IF ~isdirpath /\ path \in DOMAIN fs1 /\ fs1[path].kind = "link"
        THEN [st EXCEPT
                !.fs = [fs1 EXCEPT ![path] = LinkNode(abs_source_path, id)],
                !.created = @ + 1]
        ELSE IF path \in DOMAIN fs1
        THEN [st EXCEPT !.fs = fs1, !.skipped = @ + 1]
        ELSE [st EXCEPT
                !.fs = fs1 @@ (path :> LinkNode(abs_source_path, id)),
                !.created = @ + 1]

\* The body of the build's loop for one row, after the limit check.  The
\* outcome is "next", "raised" (content_id[0] of an empty contentID raises
\* IndexError) or "hung" (the walk never ends).
FarmRowStep(st, table, store, id, sanitize) ==
    LET content_id == table[id].contentID
        rp         == FarmRelPath(table, id, sanitize)
        source     == ResolveBlob(store, content_id)
    IN  IF rp.diverges
        THEN [st EXCEPT !.outcome = "hung"]
        ELSE IF rp.rel_path = <<>>
        THEN [st EXCEPT !.skipped = @ + 1]
        ELSE IF content_id = <<>>
        THEN [st EXCEPT !.outcome = "raised"]
        ELSE IF source = <<>>
        THEN [st EXCEPT !.skipped = @ + 1]
        ELSE PlaceLink(st, rp.rel_path, AbsPath(source), id)

\* create_symlink_farm_streaming up to its loop.
FarmBuildStart(sanitize, lim) ==
    /\ sanitize_pipes' = sanitize
    /\ limit' = lim
    /\ cursor' = 1
    /\ processed' = 0
    /\ created' = 0
    /\ skipped' = 0
    /\ farmErrors' = 0
    /\ fpc' = IF ContentCursor(dbRows) = <<>> THEN "returned" ELSE "building"

\* A direct call of create_symlink_farm_streaming.
FarmStart(sanitize, lim) ==
    /\ fpc = "idle"
    /\ FarmBuildStart(sanitize, lim)
    /\ UNCHANGED <<dbRows, canon, blobs, farm, outsideFarm, restoreVars>>

\* One pass of the loop: the limit check, then the row; the build returns
\* when the cursor is exhausted.
FarmRow ==
    /\ fpc = "building"
    /\ IF limit > 0 /\ created >= limit
       THEN /\ fpc' = "returned"
            /\ UNCHANGED <<farm, cursor, processed, created, skipped,
                           farmErrors>>
       ELSE \E st \in { FarmRowStep([fs |-> farm, created |-> created,
                                     skipped |-> skipped,
                                     errors |-> farmErrors,
                                     outcome |-> "next"],
                                    dbRows, blobs,
                                    ContentCursor(dbRows)[cursor],
                                    sanitize_pipes) } :
            /\ farm' = st.fs
            /\ created' = st.created
            /\ skipped' = st.skipped
            /\ farmErrors' = st.errors
            /\ processed' = processed + 1
            /\ cursor' = cursor + 1
            /\ fpc' = IF st.outcome # "next" THEN st.outcome
                      ELSE IF cursor = Len(ContentCursor(dbRows))
                           THEN "returned"
                           ELSE "building"
    /\ UNCHANGED <<dbRows, canon, blobs, sanitize_pipes, limit, outsideFarm,
                   restoreVars>>

(***************************************************************************)
(* run_rsync and run_restore                                               *)
(***************************************************************************)

\* str.lower() on the letters the output lines are written with.
Lower(c) ==
    CASE c = "A" -> "a" [] c = "D" -> "d" [] c = "E" -> "e"
      [] c = "F" -> "f" [] c = "I" -> "i" [] c = "L" -> "l"
      [] c = "O" -> "o" [] c = "R" -> "r" [] OTHER -> c

StrLower(s) == [i \in 1..Len(s) |-> Lower(s[i])]

\* t in s
Contains(s, t) == \E i \in 1..Len(s) : OccursAt(s, t, i)

\* str.strip()
Whitespace == {" ", "\t", "\n"}
Strip(s) == RStrip(LStrip(s, Whitespace), Whitespace)

\* 'error' in line.lower() or 'failed' in line.lower()
IsErrorLine(line) ==
    \/ Contains(StrLower(line), <<"e", "r", "r", "o", "r">>)
    \/ Contains(StrLower(line), <<"f", "a", "i", "l", "e", "d">>)

(***************************************************************************)
(* run_rsync: the command line                                             *)
(***************************************************************************)

RsyncExe     == <<"r", "s", "y", "n", "c">>
ArchiveFlag  == <<"-", "a", "v", "L">>
ProgressFlag ==
    <<"-", "-", "p", "r", "o", "g", "r", "e", "s", "s">>
ChecksumFlag ==
    <<"-", "-", "c", "h", "e", "c", "k", "s", "u", "m">>
DryRunFlag   == <<"-", "-", "d", "r", "y", "-", "r", "u", "n">>
DeleteFlag   == <<"-", "-", "d", "e", "l", "e", "t", "e">>
ExcludeFlag  == <<"-", "-", "e", "x", "c", "l", "u", "d", "e">>

\* cmd.extend(['--exclude', pattern]) for each pattern
RECURSIVE ExcludeArgs(_)
ExcludeArgs(exclude) ==
    IF exclude = <<>> THEN <<>>
    ELSE <<ExcludeFlag, Head(exclude)>> \o ExcludeArgs(Tail(exclude))

\* str.endswith('/')
EndsWithSlash(path) == path # <<>> /\ path[Len(path)] = "/"

\* A faulty WithTrailingSlash: the '/' is appended in every case.
WithTrailingSlash_Always(source) == source \o <<"/">>

\* The source as it is passed to rsync
WithTrailingSlash(source) ==
    IF EndsWithSlash(source) THEN source ELSE source \o <<"/">>

\* cmd of run_rsync; exclude is <<>> for None and for the empty list.
BuildCmd(source, dest, checksum, dryrun, delete, exclude) ==
    <<RsyncExe, ArchiveFlag, ProgressFlag>>
        \o (IF checksum THEN <<ChecksumFlag>> ELSE <<>>)
        \o (IF dryrun THEN <<DryRunFlag>> ELSE <<>>)
        \o (IF delete THEN <<DeleteFlag>> ELSE <<>>)
        \o ExcludeArgs(exclude)
        \o <<WithTrailingSlash(source), dest>>

\* No call of run_rsync has built a command line yet.
NoCmd == [called |-> FALSE, source |-> <<>>, dest |-> <<>>,
          checksum |-> FALSE, dry_run |-> FALSE, delete |-> FALSE,
          exclude |-> <<>>, cmd |-> <<>>]

\* run_rsync from its call to the command line it hands to Popen.
RunRsyncBuildsCmd ==
    /\ ~cmdCall.called
    /\ cmdCall' = [cmdCall EXCEPT
                     !.called = TRUE,
                     !.cmd = BuildCmd(cmdCall.source, cmdCall.dest,
                                      cmdCall.checksum, cmdCall.dry_run,
                                      cmdCall.delete, cmdCall.exclude)]
    /\ UNCHANGED <<treeVars, cleanupVars, deleteVars, dbVars, farmVars,
                   restoreVars, parseLog, threadCall, threadVars>>

(***************************************************************************)
(* parse_rsync_progress                                                    *)
(***************************************************************************)

Digits == {"0", "1", "2", "3", "4", "5", "6", "7", "8", "9"}

DigitVal(c) ==
    CASE c = "0" -> 0 [] c = "1" -> 1 [] c = "2" -> 2 [] c = "3" -> 3
      [] c = "4" -> 4 [] c = "5" -> 5 [] c = "6" -> 6 [] c = "7" -> 7
      [] c = "8" -> 8 [] c = "9" -> 9

\* int(s) of a non-empty string of digits
RECURSIVE ParseInt(_)
ParseInt(s) ==
    IF s = <<>> THEN 0
    ELSE 10 * ParseInt(SubSeq(s, 1, Len(s) - 1)) + DigitVal(s[Len(s)])

\* The position after the longest run of characters of class cs that starts
\* at position i of s (i itself if there is none): what a greedy cs* takes
\* when the next thing to match cannot start with a character of cs.
RECURSIVE SpanEnd(_, _, _)
SpanEnd(s, i, cs) ==
    IF i <= Len(s) /\ s[i] \in cs THEN SpanEnd(s, i + 1, cs) ELSE i

\* A number as float() reads it, kept exact: mant / 10^exp.
Zero == [mant |-> 0, exp |-> 0]

\* A speed in bytes per second, kept as a product that is not multiplied
\* out: (mant / 10^exp) * mult.
NoSpeed == [mant |-> 0, exp |-> 0, mult |-> 1]

\* float(s) for s matched by [\d.]+ : ok is FALSE where float raises
\* ValueError (no digit at all, or more than one '.').
ParseFloat(s) ==
    LET dots    == { i \in 1..Len(s) : s[i] = "." }
        digits  == SelectSeq(s, LAMBDA c : c \in Digits)
    IN  IF Cardinality(dots) > 1 \/ digits = <<>>
        THEN [ok |-> FALSE, value |-> Zero]
        ELSE [ok |-> TRUE,
              value |-> [mant |-> ParseInt(digits),
                         exp  |-> IF dots = {} THEN 0
                                  ELSE Len(s) - (CHOOSE i \in dots : TRUE)]]

\* A faulty SpeedMultiplier: decimal units.
SpeedMultiplier_Decimal(unit) ==
    CASE unit = <<"K">> -> 1000
      [] unit = <<"M">> -> 1000 * 1000
      [] unit = <<"G">> -> 1000 * 1000 * 1000
      [] OTHER -> 1

\* speed_multiplier.get(speed_unit, 1)
SpeedMultiplier(unit) ==
    CASE unit = <<"K">> -> 1024
      [] unit = <<"M">> -> 1024 * 1024
      [] unit = <<"G">> -> 1024 * 1024 * 1024
      [] OTHER -> 1

NoMatch == [matched |-> FALSE, g1 |-> <<>>, g2 |-> <<>>, g3 |-> <<>>,
            g4 |-> <<>>, g5 |-> <<>>]

\* re.search(r'^\s*([\d,]+)\s+(\d+)%\s+([\d.]+)([KMG]?)B/s\s+(\d+:\d+:\d+)',
\* line).  Every repetition is followed by something that cannot start with
\* a character of its class, so the greedy match is the only one.
ProgressMatch(line) ==
    LET a0 == SpanEnd(line, 1, Whitespace)
        a1 == SpanEnd(line, a0, Digits \cup {","})
        a2 == SpanEnd(line, a1, Whitespace)
        a3 == SpanEnd(line, a2, Digits)
        a4 == a3 + 1
        a5 == SpanEnd(line, a4, Whitespace)
        a6 == SpanEnd(line, a5, Digits \cup {"."})
        a7 == IF a6 <= Len(line) /\ line[a6] \in {"K", "M", "G"}
              THEN a6 + 1 ELSE a6
        a8 == a7 + 3
        a9 == SpanEnd(line, a8, Whitespace)
        b1 == SpanEnd(line, a9, Digits)
        b2 == SpanEnd(line, b1 + 1, Digits)
        b3 == SpanEnd(line, b2 + 1, Digits)
    IN  IF /\ a1 > a0
           /\ a2 > a1
           /\ a3 > a2
           /\ OccursAt(line, <<"%">>, a3)
           /\ a5 > a4
           /\ a6 > a5
           /\ OccursAt(line, <<"B", "/", "s">>, a7)
           /\ a9 > a8
           /\ b1 > a9
           /\ OccursAt(line, <<":">>, b1)
           /\ b2 > b1 + 1
           /\ OccursAt(line, <<":">>, b2)
           /\ b3 > b2 + 1
        THEN [matched |-> TRUE,
              g1 |-> SubSeq(line, a0, a1 - 1),
              g2 |-> SubSeq(line, a2, a3 - 1),
              g3 |-> SubSeq(line, a5, a6 - 1),
              g4 |-> SubSeq(line, a6, a7 - 1),
              g5 |-> SubSeq(line, a9, b3 - 1)]
        ELSE NoMatch

\* re.search(prefix + '(' + class + '+)', line): the first place where
\* prefix is followed by a character of cs, and the longest run from there;
\* <<>> when there is no match.
SearchRun(line, prefix, cs) ==
    LET hits == { i \in 1..Len(line) :
                    /\ OccursAt(line, prefix, i)
                    /\ i + Len(prefix) <= Len(line)
                    /\ line[i + Len(prefix)] \in cs }
    IN  IF hits = {} THEN <<>>
        ELSE LET i == CHOOSE h \in hits : \A k \in hits : h <= k
             IN  SubSeq(line, i + Len(prefix),
                        SpanEnd(line, i + Len(prefix), cs) - 1)

TotalSizePrefix ==
    <<"t", "o", "t", "a", "l", " ", "s", "i", "z", "e", " ", "i", "s", " ">>
XfrPrefix == <<"x", "f", "r", "#">>

\* s.replace(',', '')
NoCommas(s) == StrReplace(s, <<",">>, <<>>)

\* RsyncMonitor.__init__: the progress fields of a new monitor
NewMonitor ==
    [bytes_transferred |-> 0, files_transferred |-> 0,
     percent_complete |-> 0, transfer_speed |-> NoSpeed, eta |-> <<>>,
     current_file |-> <<>>]

\* str(e) of the ValueError of int('') and of float(s)
IntFailure   == <<"i", "n", "v", "a", "l", "i", "d">>
FloatFailure == <<"c", "o", "u", "l", "d", " ", "n", "o", "t">>

\* The progress part of parse_rsync_progress.  raised: int() or float()
\* raised ValueError, before update_progress was called.
ParseProgress(line, mon) ==
    LET pm    == ProgressMatch(line)
        bytes == NoCommas(pm.g1)
        speed == ParseFloat(pm.g3)
    IN  IF ~pm.matched
        THEN [raised |-> FALSE, message |-> <<>>, monitor |-> mon]
        ELSE IF bytes = <<>>
        THEN [raised |-> TRUE, message |-> IntFailure, monitor |-> mon]
        ELSE IF ~speed.ok
        THEN [raised |-> TRUE, message |-> FloatFailure, monitor |-> mon]
        ELSE [raised |-> FALSE, message |-> <<>>,
              monitor |->
                  [mon EXCEPT
                     !.bytes_transferred = ParseInt(bytes),
                     !.percent_complete = ParseInt(pm.g2),
                     !.transfer_speed =
                         [mant |-> speed.value.mant,
                          exp  |-> speed.value.exp,
                          mult |-> SpeedMultiplier(pm.g4)],
                     !.eta = pm.g5]]

\* The 'total size is' part.
ParseTotal(line, mon) ==
    LET run == SearchRun(line, TotalSizePrefix, Digits \cup {","})
    IN  IF run = <<>>
        THEN [raised |-> FALSE, message |-> <<>>, monitor |-> mon]
        ELSE IF NoCommas(run) = <<>>
        THEN [raised |-> TRUE, message |-> IntFailure, monitor |-> mon]
        ELSE [raised |-> FALSE, message |-> <<>>,
              monitor |->
                  [mon EXCEPT !.bytes_transferred = ParseInt(NoCommas(run))]]

\* The xfr#N part.
ParseXfr(line, mon) ==
    LET run      == SearchRun(line, XfrPrefix, Digits)
        filename == Strip(SplitSep(line, "(")[1])
    IN  IF run = <<>> THEN mon
        ELSE [mon EXCEPT
                !.files_transferred = ParseInt(run),
                !.current_file =
                    IF (\E i \in 1..Len(line) : line[i] = "(")
                       /\ filename # <<>>
                    THEN filename ELSE @]

\* parse_rsync_progress(line, monitor): the monitor's progress fields and
\* error list after the call, and whether the call raised.
parse_rsync_progress(line, mon, mon_errors) ==
    LET p1 == ParseProgress(line, mon)
        p2 == ParseTotal(line, p1.monitor)
    IN  IF p1.raised THEN
            [raised |-> TRUE, message |-> p1.message, monitor |-> mon,
             errors |-> mon_errors]
        ELSE IF p2.raised THEN
            [raised |-> TRUE, message |-> p2.message, monitor |-> p1.monitor,
             errors |-> mon_errors]
        ELSE
            [raised |-> FALSE, message |-> <<>>,
             monitor |-> ParseXfr(line, p2.monitor),
             errors |-> IF IsErrorLine(line)
                        THEN Append(mon_errors, Strip(line))
                        ELSE mon_errors]

MaxParsed == 2   \* direct calls of parse_rsync_progress on one monitor

\* A direct call parse_rsync_progress(line, monitor); a ValueError leaves
\* the call and goes to the caller.
ParseLine(line) ==
    /\ Len(parseLog) < MaxParsed
    /\ \E parsed \in { parse_rsync_progress(line, monitor, monitorErrors) } :
          /\ monitor' = parsed.monitor
          /\ monitorErrors' = parsed.errors
          /\ parseLog' = Append(parseLog,
                                [line |-> line, raised |-> parsed.raised,
                                 before |-> monitor, after |-> parsed.monitor,
                                 errors_before |-> monitorErrors,
                                 errors_after |-> parsed.errors])
    /\ UNCHANGED <<rpc, restore_dry_run, retry_count, inRetry, attempt, errors,
                   linesRead, return_code, attemptLog, result, child>>
    /\ UNCHANGED <<outsideParse, cmdCall, threadCall>>

(***************************************************************************)
(* recommend_thread_count (preflight.py)                                    *)
(***************************************************************************)

MaxAdvice == 2   \* calls of recommend_thread_count on one set of arguments

Min2(a, b) == IF a <= b THEN a ELSE b
Max2(a, b) == IF a >= b THEN a ELSE b

\* disk_speed_MBps is None, or one figure in whole MB/s.
UnknownSpeed == <<>>

\* The substrings that mark a network filesystem.
NetworkTags ==
    { <<"n", "f", "s">>, <<"c", "i", "f", "s">>, <<"s", "m", "b">>,
      <<"f", "u", "s", "e">> }

\* dest_fs and any(tag in dest_fs.lower() for tag in [...])
IsNetworkFs(dest_fs) ==
    /\ dest_fs # <<>>
    /\ \E tag \in NetworkTags : Contains(StrLower(dest_fs), tag)

\* The cap the write speed gives: one thread per 20 MB/s and one more,
\* between 2 and 16; the CPU-based figure when the speed is None, 0 or
\* below 0.
IoRec(cpu_rec, disk_speed_MBps) ==
    IF disk_speed_MBps # UnknownSpeed /\ disk_speed_MBps[1] > 0
    THEN Max2(2, Min2((disk_speed_MBps[1] \div 20) + 1, 16))
    ELSE cpu_rec

\* The recommendation and its explanation.
recommend_thread_count(cpu_count, file_stats, disk_speed_MBps, dest_fs) ==
    LET small   == file_stats.small_files
                     > file_stats.medium_files + file_stats.large_files
        cpu_rec == IF small
                   THEN Min2(Max2(4, cpu_count * 2), 32)
                   ELSE Min2(Max2(2, cpu_count), 16)
        io_rec  == IoRec(cpu_rec, disk_speed_MBps)
        net_rec == IF IsNetworkFs(dest_fs) THEN cpu_count ELSE cpu_rec
        final   == Min2(cpu_rec, Min2(io_rec, net_rec))
    IN  [final |-> final, cpu_rec |-> cpu_rec, io_rec |-> io_rec,
         net_rec |-> net_rec,
         limiting_factor |->
             IF final = io_rec /\ io_rec < cpu_rec
             THEN "disk I/O speed"
             ELSE IF final = net_rec /\ net_rec < cpu_rec
                  THEN "network filesystem"
                  ELSE "CPU/file characteristics"]

\* No argument set has been chosen and no call made.
NoAdvice ==
    [cpu_count |-> 0,
     file_stats |-> [small_files |-> 0, medium_files |-> 0,
                     large_files |-> 0],
     dest_fs |-> <<>>, log |-> <<>>]

\* One call of recommend_thread_count with the arguments of the state and
\* the given write speed.
RecommendThreads(disk_speed_MBps) ==
    /\ Len(threadCall.log) < MaxAdvice
    /\ threadCall' =
         [threadCall EXCEPT
            !.log = Append(@,
                      [disk_speed_MBps |-> disk_speed_MBps,
                       rec |-> recommend_thread_count(
                                   threadCall.cpu_count,
                                   threadCall.file_stats,
                                   disk_speed_MBps, threadCall.dest_fs)])]
    /\ UNCHANGED <<treeVars, cleanupVars, deleteVars, dbVars, farmVars,
                   restoreVars, parseLog, cmdCall, threadVars>>

(***************************************************************************)
(* The two threads of a transfer: run_rsync's loop and the monitor's       *)
(* background loop, step by step around monitor.lock                       *)
(***************************************************************************)

MaxOutput == 2   \* output lines the child prints during the transfer
MaxStatus == 2   \* status lines the background thread writes

\* The parts of parse_rsync_progress that write monitor fields, in order.
Sections == <<"progress", "total", "xfr", "error">>

\* Where the reading thread goes after a part.
AfterSection(sec) ==
    CASE sec = "progress" -> "total"
      [] sec = "total"    -> "xfr"
      [] sec = "xfr"      -> "error"
      [] sec = "error"    -> "peek"

\* The part's expression matches the line.
SectionApplies(sec, line) ==
    CASE sec = "progress" -> ProgressMatch(line).matched
      [] sec = "total"    ->
             SearchRun(line, TotalSizePrefix, Digits \cup {","}) # <<>>
      [] sec = "xfr"      -> SearchRun(line, XfrPrefix, Digits) # <<>>
      [] sec = "error"    -> IsErrorLine(line)

\* The conversions of the part, made before the lock is taken.
SectionOutcome(sec, line, mon) ==
    CASE sec = "progress" -> ParseProgress(line, mon)
      [] sec = "total"    -> ParseTotal(line, mon)
      [] sec = "xfr"      -> [raised |-> FALSE, message |-> <<>>,
                              monitor |-> ParseXfr(line, mon)]
      [] sec = "error"    -> [raised |-> FALSE, message |-> <<>>,
                              monitor |-> mon]

\* The monitor fields the part assigns inside its 'with monitor.lock'.
SectionWrites(sec, line) ==
    CASE sec = "progress" ->
             { "bytes_transferred", "percent_complete", "transfer_speed",
               "eta" }
      [] sec = "total"    -> { "bytes_transferred" }
      [] sec = "xfr"      ->
             { "files_transferred" }
                 \cup (IF (\E i \in 1..Len(line) : line[i] = "(")
                          /\ Strip(SplitSep(line, "(")[1]) # <<>>
                       THEN { "current_file" } ELSE {})
      [] sec = "error"    -> { "errors" }

\* One read or write of a monitor field, and whether the thread held the
\* lock.
Access(thread, op, field) ==
    [thread |-> thread, op |-> op, field |-> field, locked |-> lock = thread]

\* No status line has been built.
NoStatus == [files |-> 0, bytes |-> 0, percent |-> 0, speed |-> NoSpeed,
             eta |-> <<>>]

\* No transfer is running: no thread exists.
ThreadsIdle ==
    /\ lock = "free"
    /\ rdPc = "none"
    /\ rdLine = <<>>
    /\ last_file_print = 0
    /\ lgPc = "none"
    /\ status_line = NoStatus
    /\ statusLog = <<>>
    /\ accesses = {}

loggerVars == <<lgPc, status_line, statusLog>>

\* What the reading thread leaves alone outside the monitor.
outsideThreads ==
    <<treeVars, cleanupVars, deleteVars, dbVars, farmVars, pureVars, rpc,
      restore_dry_run, retry_count, inRetry, attempt, attemptLog, result,
      child>>

\* 'for line in process.stdout': the next line, stripped; an empty one is
\* passed over.
ReaderReadLine(raw) ==
    /\ rdPc = "loop"
    /\ linesRead < MaxOutput
    /\ linesRead' = linesRead + 1
    /\ rdLine' = Strip(raw)
    /\ rdPc' = IF Strip(raw) = <<>> THEN "loop" ELSE "progress"
    /\ UNCHANGED <<lock, last_file_print, loggerVars, accesses, monitor,
                   monitorErrors, errors, return_code, outsideThreads>>

\* A part of parse_rsync_progress whose expression does not match.
ReaderSectionSkipped ==
    /\ rdPc \in Elems(Sections)
    /\ lock # "reader"
    /\ ~SectionApplies(rdPc, rdLine)
    /\ rdPc' = AfterSection(rdPc)
    /\ UNCHANGED <<lock, rdLine, last_file_print, loggerVars, accesses,
                   monitor, monitorErrors, errors, linesRead, return_code,
                   outsideThreads>>

\* A conversion raises ValueError: run_rsync's except clause ends the
\* attempt with status 1 and str(e) in its error list.
ReaderSectionRaises ==
    /\ rdPc \in Elems(Sections)
    /\ lock # "reader"
    /\ SectionApplies(rdPc, rdLine)
    /\ SectionOutcome(rdPc, rdLine, monitor).raised
    /\ errors' = Append(errors, SectionOutcome(rdPc, rdLine, monitor).message)
    /\ return_code' = 1
    /\ rdPc' = "ended"
    /\ UNCHANGED <<lock, rdLine, last_file_print, loggerVars, accesses,
                   monitor, monitorErrors, linesRead, outsideThreads>>

\* 'with monitor.lock:' of a part that matched: the thread waits until the
\* lock is free and takes it.
ReaderAcquire ==
    /\ rdPc \in Elems(Sections)
    /\ SectionApplies(rdPc, rdLine)
    /\ ~SectionOutcome(rdPc, rdLine, monitor).raised
    /\ lock = "free"
    /\ lock' = "reader"
    /\ UNCHANGED <<rdPc, rdLine, last_file_print, loggerVars, accesses,
                   monitor, monitorErrors, errors, linesRead, return_code,
                   outsideThreads>>

\* The body of the 'with' block and its end: the fields are assigned and
\* the lock is released.
ReaderWriteRelease ==
    /\ rdPc \in Elems(Sections)
    /\ lock = "reader"
    /\ monitor' = SectionOutcome(rdPc, rdLine, monitor).monitor
    /\ monitorErrors' = IF rdPc = "error"
                        THEN Append(monitorErrors, Strip(rdLine))
                        ELSE monitorErrors
    /\ accesses' = accesses \cup
                     { Access("reader", "write", f) :
                         f \in SectionWrites(rdPc, rdLine) }
    /\ lock' = "free"
    /\ rdPc' = AfterSection(rdPc)
    /\ UNCHANGED <<rdLine, last_file_print, loggerVars, errors, linesRead,
                   return_code, outsideThreads>>

\* Back in run_rsync: the test for the periodic print reads
\* monitor.files_transferred, the print reads monitor.current_file; then
\* the line is tested for 'error' and 'failed'.
ReaderPeek ==
    /\ rdPc = "peek"
    /\ LET shown == /\ monitor.files_transferred > 0
                    /\ monitor.files_transferred % 5 = 0
                    /\ monitor.files_transferred # last_file_print
       IN  /\ last_file_print' = IF shown THEN monitor.files_transferred
                                 ELSE last_file_print
           /\ accesses' = accesses
                  \cup { Access("reader", "read", "files_transferred") }
                  \cup (IF shown
                        THEN { Access("reader", "read", "current_file") }
                        ELSE {})
    /\ errors' = IF IsErrorLine(rdLine) THEN Append(errors, rdLine)
                 ELSE errors
    /\ rdPc' = "loop"
    /\ UNCHANGED <<lock, rdLine, loggerVars, monitor, monitorErrors,
                   linesRead, return_code, outsideThreads>>

\* The child's output ends: process.wait() and the return.
ReaderEof(code) ==
    /\ rdPc = "loop"
    /\ return_code' = code
    /\ rdPc' = "ended"
    /\ UNCHANGED <<lock, rdLine, last_file_print, loggerVars, accesses,
                   monitor, monitorErrors, errors, linesRead, outsideThreads>>

\* Enters the 'with' block without taking the lock.
LoggerAcquire_NoLock ==
    /\ lgPc = "sleeping"
    /\ Len(statusLog) < MaxStatus
    /\ lgPc' = "building"
    /\ UNCHANGED <<lock, rdPc, rdLine, last_file_print, status_line,
                   statusLog, accesses, monitor, monitorErrors, errors,
                   linesRead, return_code, outsideThreads>>

\* _log_status up to its 'with self.lock:': the background thread waits
\* until the lock is free and takes it.
LoggerAcquire ==
    /\ lgPc = "sleeping"
    /\ Len(statusLog) < MaxStatus
    /\ lock = "free"
    /\ lock' = "logger"
    /\ lgPc' = "building"
    /\ UNCHANGED <<rdPc, rdLine, last_file_print, status_line, statusLog,
                   accesses, monitor, monitorErrors, errors, linesRead,
                   return_code, outsideThreads>>

\* The body of the 'with' block of _log_status and its end: the status
\* line is built from five fields and the lock is released.
LoggerBuildRelease ==
    /\ lgPc = "building"
    /\ status_line' = [files   |-> monitor.files_transferred,
                       bytes   |-> monitor.bytes_transferred,
                       percent |-> monitor.percent_complete,
                       speed   |-> monitor.transfer_speed,
                       eta     |-> monitor.eta]
    /\ accesses' = accesses \cup
                     { Access("logger", "read", f) :
                         f \in { "files_transferred", "bytes_transferred",
                                 "percent_complete", "transfer_speed",
                                 "eta" } }
    /\ lock' = "free"
    /\ lgPc' = "writing"
    /\ UNCHANGED <<rdPc, rdLine, last_file_print, statusLog, monitor,
                   monitorErrors, errors, linesRead, return_code,
                   outsideThreads>>

\* The status line is printed and appended to the log file; the thread
\* sleeps until the next round.
LoggerWrite ==
    /\ lgPc = "writing"
    /\ statusLog' = Append(statusLog, status_line)
    /\ lgPc' = "sleeping"
    /\ UNCHANGED <<lock, rdPc, rdLine, last_file_print, status_line,
                   accesses, monitor, monitorErrors, errors, linesRead,
                   return_code, outsideThreads>>

(***************************************************************************)
(* run_rsync and run_restore, continued                                     *)
(***************************************************************************)

\* str(e) of the exception Popen raises when rsync is absent
PopenFailure == <<"N", "o", " ", "r", "s", "y", "n", "c">>

\* The status run_rsync returns after an interrupt
InterruptStatus == 130

\* A faulty RestoreResult: the monitor's error list is not looked at.
RestoreResult_IgnoresMonitor(code, monitor_errors) ==
    IF code = 0 THEN 0 ELSE 1

\* The value run_restore returns after its transfer attempts.
RestoreResult(code, monitor_errors) ==
    IF code = 0 /\ monitor_errors = <<>> THEN 0 ELSE 1

\* count_files_in_dir(farm)[0]: os.walk counts every entry that is no
\* directory.
FarmFiles(fs) == Cardinality({ path \in DOMAIN fs : fs[path].kind # "dir" })

\* get_db_stats(db_path)['total_files']
TotalFiles(table) ==
    Cardinality({ i \in 1..Len(table) :
                    /\ table[i].contentID # SqlNull
                    /\ table[i].contentID # <<>> })

\* A faulty AttemptReturns: the retry loop is entered in dry-run mode too
\* and is not left when an attempt returns no errors.
AttemptReturns_AlwaysRetries(code, errs) ==
    /\ return_code' = code
    /\ errors' = errs
    /\ attemptLog' = Append(attemptLog, [status |-> code, errors |-> errs])
    /\ IF ~inRetry
       THEN IF errs # <<>> /\ retry_count > 0
            THEN /\ inRetry' = TRUE
                 /\ attempt' = 0
                 /\ rpc' = "launching"
                 /\ UNCHANGED result
            ELSE /\ rpc' = "returned"
                 /\ result' = RestoreResult(code, monitorErrors')
                 /\ UNCHANGED <<inRetry, attempt>>
       ELSE IF attempt + 1 < retry_count
            THEN /\ attempt' = attempt + 1
                 /\ rpc' = "launching"
                 /\ UNCHANGED <<inRetry, result>>
            ELSE /\ rpc' = "returned"
                 /\ result' = RestoreResult(code, monitorErrors')
                 /\ UNCHANGED <<inRetry, attempt>>

\* run_rsync returns (code, errs) to run_restore, which decides between
\* another attempt and its summary.
AttemptReturns(code, errs) ==
    /\ return_code' = code
    /\ errors' = errs
    /\ attemptLog' = Append(attemptLog, [status |-> code, errors |-> errs])
    /\ IF ~inRetry
       THEN IF errs # <<>> /\ retry_count > 0 /\ ~restore_dry_run
            THEN /\ inRetry' = TRUE
                 /\ attempt' = 0
                 /\ rpc' = "launching"
                 /\ UNCHANGED result
            ELSE /\ rpc' = "returned"
                 /\ result' = RestoreResult(code, monitorErrors')
                 /\ UNCHANGED <<inRetry, attempt>>
       ELSE IF errs # <<>> /\ attempt + 1 < retry_count
            THEN /\ attempt' = attempt + 1
                 /\ rpc' = "launching"
                 /\ UNCHANGED <<inRetry, result>>
            ELSE /\ rpc' = "returned"
                 /\ result' = RestoreResult(code, monitorErrors')
                 /\ UNCHANGED <<inRetry, attempt>>

\* run_restore from its call to the start of the farm build or, without a
\* build, to the start of the monitor.  passed is what run_preflight
\* reports as checks_passed (source directory, database file and rsync all
\* found); response is the answer to "Rebuild farm?".
RestoreStart(dry, retries, skip_farm, sanitize, lim, passed, response) ==
    /\ rpc = "idle"
    /\ fpc = "idle"
    /\ restore_dry_run' = dry
    /\ retry_count' = retries
    /\ UNCHANGED <<inRetry, attempt, errors, linesRead, return_code,
                   monitorErrors, attemptLog, monitor, child>>
    /\ IF ~passed
       THEN /\ rpc' = "returned"
            /\ result' = 1
            /\ UNCHANGED farmVars
       ELSE /\ UNCHANGED result
            /\ IF skip_farm
               THEN /\ rpc' = "launching"
                    /\ UNCHANGED farmVars
               ELSE IF farm # <<>>
               THEN IF /\ FarmFiles(farm) * 10 < TotalFiles(dbRows) * 9
                       /\ response = "y"
                    THEN /\ farm' = <<>>
                         /\ FarmBuildStart(sanitize, lim)
                         /\ rpc' = "farm"
                         /\ UNCHANGED blobs
                    ELSE /\ rpc' = "launching"
                         /\ UNCHANGED farmVars
               ELSE /\ FarmBuildStart(sanitize, lim)
                    /\ rpc' = "farm"
                    /\ UNCHANGED <<blobs, farm>>
    /\ UNCHANGED <<dbRows, canon, outsideRestore>>

\* The farm build of a restore has ended: an exception of the build leaves
\* run_restore, a return lets it go on to the monitor and the transfer.
RestoreFarmDone ==
    /\ rpc = "farm"
    /\ fpc \in {"returned", "raised"}
    /\ rpc' = IF fpc = "raised" THEN "raised" ELSE "launching"
    /\ UNCHANGED <<restore_dry_run, retry_count, inRetry, attempt, errors,
                   linesRead, return_code, monitorErrors, attemptLog, result,
                   monitor, child>>
    /\ UNCHANGED <<dbRows, canon, farmVars, outsideRestore>>

\* run_rsync up to subprocess.Popen.  outcome: "ok", "absent" (Popen
\* raises, which except Exception catches) or "interrupted" (the interrupt
\* arrives before process is bound, and the handler's process.terminate()
\* raises out of run_rsync and run_restore).
RsyncLaunch(outcome) ==
    /\ rpc = "launching"
    /\ linesRead' = 0
    /\ CASE outcome = "ok" ->
              /\ rpc' = "reading"
              /\ child' = "running"
              /\ errors' = <<>>
              /\ UNCHANGED <<inRetry, attempt, return_code, monitorErrors,
                             attemptLog, result>>
         [] outcome = "absent" ->
              /\ child' = "none"
              /\ UNCHANGED monitorErrors
              /\ AttemptReturns(1, <<PopenFailure>>)
         [] outcome = "interrupted" ->
              /\ rpc' = "raised"
              /\ child' = "none"
              /\ errors' = <<>>
              /\ UNCHANGED <<inRetry, attempt, return_code, monitorErrors,
                             attemptLog, result>>
    /\ UNCHANGED <<restore_dry_run, retry_count, monitor>>
    /\ UNCHANGED <<dbRows, canon, farmVars, outsideRestore>>

MaxLines == 2   \* output lines read during one transfer attempt

\* One pass of "for line in process.stdout"; the model stops reading after
\* MaxLines lines.  A ValueError of parse_rsync_progress is caught by
\* "except Exception": the call returns 1 and the child is left running.
RsyncLine(raw) ==
    /\ rpc = "reading"
    /\ linesRead < MaxLines
    /\ linesRead' = linesRead + 1
    /\ \E line \in { Strip(raw) } :
          IF line = <<>>
          THEN UNCHANGED <<rpc, inRetry, attempt, return_code, attemptLog,
                           result, monitor, monitorErrors, errors>>
          ELSE \E parsed \in { parse_rsync_progress(line, monitor,
                                                     monitorErrors) } :
                 /\ monitor' = parsed.monitor
                 /\ monitorErrors' = parsed.errors
                 /\ IF parsed.raised
                    THEN AttemptReturns(1, Append(errors, parsed.message))
                    ELSE /\ errors' = IF IsErrorLine(line)
                                      THEN Append(errors, line)
                                      ELSE errors
                         /\ UNCHANGED <<rpc, inRetry, attempt, return_code,
                                        attemptLog, result>>
    /\ UNCHANGED <<restore_dry_run, retry_count, child>>
    /\ UNCHANGED <<dbRows, canon, farmVars, outsideRestore>>

\* The child's output ends: process.wait() and the return.
RsyncExit(code) ==
    /\ rpc = "reading"
    /\ UNCHANGED monitorErrors
    /\ AttemptReturns(code, errors)
    /\ child' = "exited"
    /\ UNCHANGED <<restore_dry_run, retry_count, linesRead, monitor>>
    /\ UNCHANGED <<dbRows, canon, farmVars, outsideRestore>>

\* A faulty RsyncInterrupt: the child is left alone and the error lines
\* collected so far are dropped.
RsyncInterrupt_DropsErrors ==
    /\ rpc = "reading"
    /\ UNCHANGED monitorErrors
    /\ AttemptReturns(InterruptStatus, <<>>)
    /\ UNCHANGED <<restore_dry_run, retry_count, linesRead, monitor, child>>
    /\ UNCHANGED <<dbRows, canon, farmVars, outsideRestore>>

\* KeyboardInterrupt while the output is read.
RsyncInterrupt ==
    /\ rpc = "reading"
    /\ UNCHANGED monitorErrors
    /\ AttemptReturns(InterruptStatus, errors)
    /\ child' = "terminated"
    /\ UNCHANGED <<restore_dry_run, retry_count, linesRead, monitor>>
    /\ UNCHANGED <<dbRows, canon, farmVars, outsideRestore>>

(***************************************************************************)
(* Cleanup configuration                                                   *)
(***************************************************************************)

NoFile == [exists |-> FALSE, protect |-> <<>>, cleanup |-> <<>>]

NoConfig == [protect |-> <<>>, cleanup |-> <<>>, shared |-> FALSE]

\* load_cleanup_config: DEFAULT_CLEANUP_CONFIG.copy() is a shallow copy, so
\* without a file the returned dict holds the very lists of the default
\* (shared = TRUE); yaml's lists replace them when the file exists.
load_cleanup_config(file, dflt) ==
    IF ~file.exists
    THEN [protect |-> dflt.protect, cleanup |-> dflt.cleanup, shared |-> TRUE]
    ELSE [protect |-> file.protect, cleanup |-> file.cleanup, shared |-> FALSE]

\* The lists of DEFAULT_CLEANUP_CONFIG after the appends made to cfg.
DefaultsAfter(cfg, dflt) ==
    IF cfg.shared
    THEN [protect |-> cfg.protect, cleanup |-> cfg.cleanup]
    ELSE dflt

\* save_cleanup_config (yaml.dump of the whole dict)
save_cleanup_config(cfg) ==
    [exists |-> TRUE, protect |-> cfg.protect, cleanup |-> cfg.cleanup]

\* if p not in list: list.append(p)
AppendUnique(list, p) == IF InList(p, list) THEN list ELSE Append(list, p)

\* for p in more: if p not in list: list.append(p)
RECURSIVE ExtendUnique(_, _)
ExtendUnique(list, more) ==
    IF more = <<>> THEN list
    ELSE ExtendUnique(AppendUnique(list, Head(more)), Tail(more))

(***************************************************************************)
(* run_cleanup_cli and run_cleanup_wizard                                  *)
(***************************************************************************)

\* The deletion rule of run_cleanup_cli for one orphan.
CliDeletes(orphan, cfg) ==
    IF cfg.cleanup # <<>>
    THEN matches_pattern(orphan, cfg.cleanup)
         /\ ~matches_pattern(orphan, cfg.protect)
    ELSE ~matches_pattern(orphan, cfg.protect)

\* Faulty variant of WizardDeletes: the protect list is not consulted.
WizardDeletes_NoProtect(orphan, cfg) ==
    matches_pattern(orphan, cfg.cleanup)

\* The deletion rule of run_cleanup_wizard for one orphan.
WizardDeletes(orphan, cfg) ==
    /\ matches_pattern(orphan, cfg.cleanup)
    /\ ~matches_pattern(orphan, cfg.protect)

\* folders_to_review of the wizard
FoldersToReview(stats) ==
    SelectSeq(FolderOrder,
              LAMBDA f : f \in DOMAIN stats
                         /\ (stats[f].orphans > 0 \/ ~stats[f].in_db))

\* f"{folder}/*"
FolderPattern(folder) == folder \o <<"/", "*">>

\* One answer of the user for one folder of the review.
Classify(cfg, folder, choice) ==
    IF choice = "P"
    THEN [cfg EXCEPT !.protect = AppendUnique(@, FolderPattern(folder))]
    ELSE IF choice = "C"
    THEN [cfg EXCEPT !.cleanup = AppendUnique(@, FolderPattern(folder))]
    ELSE cfg

\* run_cleanup_cli, from its call to its return.  answer is what the user
\* types at the confirmation prompt, asked only without auto_yes.
RunCleanupCli(protect_patterns, cleanup_patterns, dry_run, auto_yes, answer) ==
    /\ cpc = "idle"
    /\ runs < MaxRuns
    /\ \E cfg \in { LET loaded == load_cleanup_config(cfgFile, defaults)
                    IN  [loaded EXCEPT
                            !.protect = ExtendUnique(@, protect_patterns),
                            !.cleanup = ExtendUnique(@, cleanup_patterns)] } :
       \E sr \in { scan_destination_for_orphans(destFiles, canonical_paths,
                                                cfg.protect) } :
       \E otd \in { SelectSeq(sr.orphans, LAMBDA o : CliDeletes(o, cfg)) } :
       \E call \in { delete_orphans(destFiles, readOnly, otd, dry_run) } :
           /\ config' = cfg
           /\ defaults' = DefaultsAfter(cfg, defaults)
           /\ scanArgs' = [files |-> destFiles, protect |-> cfg.protect]
           /\ scan_results' = sr
           /\ orphans_to_delete' = otd
           /\ IF otd = <<>>
              THEN /\ delResult' = NoCall
                   /\ ret' = 0
                   /\ UNCHANGED <<destFiles, cfgFile>>
              ELSE IF dry_run
              THEN /\ delResult' = call
                   /\ destFiles' = call.after
                   /\ ret' = 0
                   /\ UNCHANGED cfgFile
              ELSE IF ~auto_yes /\ ~answer
              THEN /\ delResult' = NoCall
                   /\ ret' = 0
                   /\ UNCHANGED <<destFiles, cfgFile>>
              ELSE /\ delResult' = call
                   /\ destFiles' = call.after
                   /\ cfgFile' = save_cleanup_config(cfg)
                   /\ ret' = IF call.errors = 0 THEN 0 ELSE 1
    /\ cpc' = "done"
    /\ runs' = runs + 1
    /\ UNCHANGED <<readOnly, canonical_paths, review, reviewIdx, outsideCleanup>>

\* run_cleanup_wizard up to its first prompt: load, scan, folder summary.
WizardStart ==
    /\ cpc = "idle"
    /\ runs < MaxRuns
    /\ \E cfg \in { load_cleanup_config(cfgFile, defaults) } :
       \E sr \in { scan_destination_for_orphans(destFiles, canonical_paths,
                                                cfg.protect) } :
       \E ftr \in { FoldersToReview(sr.folder_stats) } :
           /\ config' = cfg
           /\ scanArgs' = [files |-> destFiles, protect |-> cfg.protect]
           /\ scan_results' = sr
           /\ review' = ftr
           /\ reviewIdx' = 1
           /\ IF ftr = <<>>
              THEN cpc' = "done" /\ ret' = 0
              ELSE cpc' = "classify" /\ UNCHANGED ret
    /\ runs' = runs + 1
    /\ UNCHANGED <<treeVars, canonical_paths, defaults, cfgFile,
                   orphans_to_delete, delResult, outsideCleanup>>

\* The user's answer for the folder under review; after the last folder
\* the wizard saves the config and computes the deletion list.
WizardClassify(choice) ==
    /\ cpc = "classify"
    /\ \E cfg \in { Classify(config, review[reviewIdx], choice) } :
           /\ config' = cfg
           /\ defaults' = DefaultsAfter(cfg, defaults)
           /\ IF reviewIdx < Len(review)
              THEN /\ reviewIdx' = reviewIdx + 1
                   /\ UNCHANGED <<cfgFile, orphans_to_delete, cpc, ret>>
              ELSE \E otd \in { SelectSeq(scan_results.orphans,
                                          LAMBDA o : WizardDeletes(o, cfg)) } :
                   /\ reviewIdx' = reviewIdx
                   /\ cfgFile' = save_cleanup_config(cfg)
                   /\ orphans_to_delete' = otd
                   /\ IF otd = <<>>
                      THEN cpc' = "done" /\ ret' = 0
                      ELSE cpc' = "confirm" /\ UNCHANGED ret
    /\ UNCHANGED <<treeVars, canonical_paths, scanArgs, scan_results,
                   delResult, review, runs, outsideCleanup>>

\* The user's answer to "Delete these files?".
WizardConfirm(answer) ==
    /\ cpc = "confirm"
    /\ IF ~answer
       THEN /\ ret' = 0
            /\ UNCHANGED <<destFiles, delResult, cfgFile>>
       ELSE \E call \in { delete_orphans(destFiles, readOnly,
                                         orphans_to_delete, FALSE) } :
            /\ delResult' = call
            /\ destFiles' = call.after
            /\ cfgFile' = save_cleanup_config(config)
            /\ ret' = IF call.errors = 0 THEN 0 ELSE 1
    /\ cpc' = "done"
    /\ UNCHANGED <<readOnly, canonical_paths, defaults, config, scanArgs,
                   scan_results, orphans_to_delete, review, reviewIdx, runs,
                   outsideCleanup>>

\* The cleanup returns to its caller: its locals are gone, the tree, the
\* config file and the module-level default stay.
CleanupReturn ==
    /\ cpc = "done"
    /\ cpc' = "idle"
    /\ config' = NoConfig
    /\ scanArgs' = NoScan
    /\ scan_results' = EmptyResults
    /\ orphans_to_delete' = <<>>
    /\ delResult' = NoCall
    /\ review' = <<>>
    /\ reviewIdx' = 1
    /\ ret' = 0
    /\ UNCHANGED <<treeVars, canonical_paths, defaults, cfgFile, runs,
                   outsideCleanup>>

\* Config files the cleanup may find on disk.
CfgFilePool ==
    { NoFile,
      [exists |-> TRUE, protect |-> <<>>, cleanup |-> << <<"*">> >>],
      [exists |-> TRUE, protect |-> << <<"Q", "/", "*">> >>,
       cleanup |-> <<>>] }

TreeInit ==
    /\ destFiles \in BoundedSubsets(DestPool, MaxDestFiles)
    /\ readOnly \in BoundedSubsets(destFiles, MaxReadOnly)

CleanupIdle ==
    /\ defaults = [protect |-> <<>>, cleanup |-> <<>>]
    /\ config = NoConfig
    /\ scanArgs = NoScan
    /\ scan_results = EmptyResults
    /\ orphans_to_delete = <<>>
    /\ delResult = NoCall
    /\ review = <<>>
    /\ reviewIdx = 1
    /\ cpc = "idle"
    /\ ret = 0
    /\ runs = 0

DeleteIdle ==
    /\ orphan_paths = <<>>
    /\ dryResult = NoCall
    /\ realResult = NoCall

DbIdle ==
    /\ dbRows = <<>>
    /\ canon = NotCalled

FarmIdle ==
    /\ blobs = {}
    /\ farm = <<>>
    /\ sanitize_pipes = FALSE
    /\ limit = 0
    /\ cursor = 1
    /\ processed = 0
    /\ created = 0
    /\ skipped = 0
    /\ farmErrors = 0
    /\ fpc = "idle"

RestoreIdle ==
    /\ rpc = "idle"
    /\ restore_dry_run = FALSE
    /\ retry_count = 0
    /\ inRetry = FALSE
    /\ attempt = 0
    /\ errors = <<>>
    /\ linesRead = 0
    /\ return_code = 0
    /\ monitorErrors = <<>>
    /\ attemptLog = <<>>
    /\ result = 0
    /\ monitor = NewMonitor
    /\ child = "none"
    /\ parseLog = <<>>
    /\ cmdCall = NoCmd
    /\ threadCall = NoAdvice
    /\ ThreadsIdle

CleanupInit ==
    /\ TreeInit
    /\ canonical_paths \in SUBSET CanonPool
    /\ cfgFile \in CfgFilePool
    /\ CleanupIdle
    /\ DeleteIdle
    /\ DbIdle
    /\ FarmIdle
    /\ RestoreIdle

CleanupNext ==
    \/ \E pp \in ListsUpTo(PatternPool, MaxPatterns),
          cp \in ListsUpTo(PatternPool, MaxPatterns),
          dry_run \in BOOLEAN, auto_yes \in BOOLEAN, answer \in BOOLEAN :
          RunCleanupCli(pp, cp, dry_run, auto_yes, answer)
    \/ WizardStart
    \/ \E choice \in {"P", "C", "S"} : WizardClassify(choice)
    \/ \E answer \in BOOLEAN : WizardConfirm(answer)
    \/ CleanupReturn

SpecCleanup == CleanupInit /\ [][CleanupNext]_vars

(***************************************************************************)
(* Direct calls of delete_orphans                                          *)
(***************************************************************************)

\* delete_orphans(dest_dir, orphan_paths, dry_run=True)
DeleteDryRun ==
    /\ ~dryResult.called
    /\ LET call == delete_orphans(destFiles, readOnly, orphan_paths, TRUE)
       IN  /\ dryResult' = call
           /\ destFiles' = call.after
    /\ UNCHANGED <<readOnly, orphan_paths, realResult, outsideDelete>>

\* delete_orphans(dest_dir, orphan_paths, dry_run=False)
DeleteReal ==
    /\ ~realResult.called
    /\ LET call == delete_orphans(destFiles, readOnly, orphan_paths, FALSE)
       IN  /\ realResult' = call
           /\ destFiles' = call.after
    /\ UNCHANGED <<readOnly, orphan_paths, dryResult, outsideDelete>>

DeleteInit ==
    /\ TreeInit
    /\ canonical_paths = {}
    /\ cfgFile = NoFile
    /\ CleanupIdle
    /\ orphan_paths \in ListsUpTo(DestPool, MaxList)
    /\ dryResult = NoCall
    /\ realResult = NoCall
    /\ DbIdle
    /\ FarmIdle
    /\ RestoreIdle

DeleteNext == DeleteDryRun \/ DeleteReal

SpecDelete == DeleteInit /\ [][DeleteNext]_vars

(***************************************************************************)
(* Direct calls of get_canonical_paths_from_db (SpecPaths)                 *)
(***************************************************************************)

MaxPathRows == 3   \* rows of the metadata table

\* Names of rows: a root marker, a plain name, a name with a pipe.
AuthName == <<"a", "u", "t", "h", "|">>
NamePool == { AuthName, <<"d">>, <<"f", "|">> }

\* contentID values: NULL, the empty string, a content id.
PathContentPool == { SqlNull, <<>>, <<"b", "1">> }

RowsOver(n, contents) ==
    [name : NamePool, parentID : 0..n, contentID : contents]

\* Every table of 1..n rows.
TablesUpTo(n, contents) ==
    UNION { [1..k -> RowsOver(k, contents)] : k \in 1..n }

GetCanonicalPaths ==
    /\ ~canon.called
    /\ canon' = get_canonical_paths_from_db(dbRows)
    /\ UNCHANGED <<dbRows, outsidePaths>>

PathsInit ==
    /\ dbRows \in TablesUpTo(MaxPathRows, PathContentPool)
    /\ canon = NotCalled
    /\ destFiles = {}
    /\ readOnly = {}
    /\ canonical_paths = {}
    /\ cfgFile = NoFile
    /\ CleanupIdle
    /\ DeleteIdle
    /\ FarmIdle
    /\ RestoreIdle

PathsNext == GetCanonicalPaths

SpecPaths == PathsInit /\ [][PathsNext]_vars

(***************************************************************************)
(* Farm builds (SpecFarm)                                                  *)
(***************************************************************************)

MaxFarmRows == 2   \* rows of the metadata table of a farm build
MaxLimit    == 1   \* largest --limit given to a build

\* contentID values of a build: NULL, the empty string, two content ids.
FarmContentPool == { SqlNull, <<>>, <<"b", "1">>, <<"c", "1">> }

\* Blob stores: empty; b1 sharded; b1 flat and c1 sharded; b1 at both
\* places and c1 flat.
BlobStorePool ==
    { {},
      { <<"s", "/", "b", "/", "b", "1">> },
      { <<"s", "/", "b", "1">>, <<"s", "/", "c", "/", "c", "1">> },
      { <<"s", "/", "b", "/", "b", "1">>, <<"s", "/", "b", "1">>,
        <<"s", "/", "c", "1">> } }

\* What the farm directory holds before the build: nothing, or a regular
\* file named d.
\* Where a symlink left by an earlier build points: a blob that is gone.
StaleTarget == <<"/", "o">>

\* The farm directory before the build: empty, holding a regular file, or
\* holding a symlink of an earlier build.
FarmPool ==
    { <<>>, (<< <<"d">> >> :> FileNode),
      (<< <<"d">> >> :> LinkNode(StaleTarget, 0)) }

FarmInit ==
    /\ dbRows \in TablesUpTo(MaxFarmRows, FarmContentPool)
    /\ canon = NotCalled
    /\ blobs \in BlobStorePool
    /\ farm \in FarmPool
    /\ sanitize_pipes = FALSE
    /\ limit = 0
    /\ cursor = 1
    /\ processed = 0
    /\ created = 0
    /\ skipped = 0
    /\ farmErrors = 0
    /\ fpc = "idle"
    /\ destFiles = {}
    /\ readOnly = {}
    /\ canonical_paths = {}
    /\ cfgFile = NoFile
    /\ CleanupIdle
    /\ DeleteIdle
    /\ RestoreIdle

FarmNext ==
    \/ \E sanitize \in BOOLEAN, lim \in 0..MaxLimit : FarmStart(sanitize, lim)
    \/ FarmRow

SpecFarm == FarmInit /\ [][FarmNext]_vars

\* A build into a farm directory that holds nothing yet.
FreshFarmInit == FarmInit /\ farm = <<>>

SpecFreshFarm == FreshFarmInit /\ [][FarmNext]_vars

(***************************************************************************)
(* Restores (SpecRestore)                                                  *)
(***************************************************************************)

MaxRetries == 2   \* largest retry_count given to a restore

\* Exit statuses of the transfer tool: success and a partial transfer.
ExitCodes == {0, 23}

\* Output lines: a file name, two error lines, a blank line.
LinePool ==
    { <<"d">>,
      <<"E", "R", "R", "O", "R">>,
      <<" ", "I", "O", " ", "f", "a", "i", "l", "e", "d">>,
      <<" ">> }

\* Metadata tables of a restore: a file below the root marker; two files
\* at top level; a single row with an empty contentID.
RestoreTablePool ==
    { << [name |-> AuthName, parentID |-> 0, contentID |-> SqlNull],
         [name |-> <<"d">>, parentID |-> 1, contentID |-> <<"b", "1">>] >>,
      << [name |-> <<"d">>, parentID |-> 0, contentID |-> <<"b", "1">>],
         [name |-> <<"f", "|">>, parentID |-> 0,
          contentID |-> <<"c", "1">>] >>,
      << [name |-> <<"d">>, parentID |-> 0, contentID |-> <<>>] >> }

RestoreInit ==
    /\ dbRows \in RestoreTablePool
    /\ canon = NotCalled
    /\ blobs = { <<"s", "/", "b", "1">>, <<"s", "/", "c", "/", "c", "1">> }
    /\ farm \in FarmPool
    /\ sanitize_pipes = FALSE
    /\ limit = 0
    /\ cursor = 1
    /\ processed = 0
    /\ created = 0
    /\ skipped = 0
    /\ farmErrors = 0
    /\ fpc = "idle"
    /\ RestoreIdle
    /\ destFiles = {}
    /\ readOnly = {}
    /\ canonical_paths = {}
    /\ cfgFile = NoFile
    /\ CleanupIdle
    /\ DeleteIdle

RestoreNext ==
    \/ \E dry \in BOOLEAN, retries \in 0..MaxRetries, skip_farm \in BOOLEAN,
          sanitize \in BOOLEAN, lim \in 0..MaxLimit, passed \in BOOLEAN,
          response \in {"y", "n"} :
          RestoreStart(dry, retries, skip_farm, sanitize, lim, passed,
                       response)
    \/ FarmRow
    \/ RestoreFarmDone
    \/ \E outcome \in {"ok", "absent", "interrupted"} : RsyncLaunch(outcome)
    \/ \E raw \in LinePool : RsyncLine(raw)
    \/ \E code \in ExitCodes : RsyncExit(code)
    \/ RsyncInterrupt

SpecRestore == RestoreInit /\ [][RestoreNext]_vars

(***************************************************************************)
(* One transfer attempt (SpecRsync)                                        *)
(***************************************************************************)

\* Output lines of the child.
RsyncLinePool ==
    {
      \* a file name
      <<"d">>,
      \* a progress line
      <<"7", " ", "5", "%", " ", "2", ".", "5", "K", "B", "/", "s", " ",
        "0", ":", "0", ":", "1">>,
      \* a progress line with a transfer index
      <<"9", " ", "1", "0", "0", "%", " ", "1", "M", "B", "/", "s", " ",
        "0", ":", "0", ":", "2", " ", "(", "x", "f", "r", "#", "2", ")">>,
      \* a transfer index line
      <<"x", "f", "r", "#", "3", ",", " ", "x">>,
      \* a summary line
      <<"t", "o", "t", "a", "l", " ", "s", "i", "z", "e", " ", "i", "s",
        " ", "1", ",", "2">>,
      \* an error line
      <<"E", "R", "R", "O", "R">>,
      \* an error line
      <<" ", "I", "O", " ", "f", "a", "i", "l", "e", "d">>,
      \* a progress line whose byte figure holds no digit
      <<",", " ", "1", "%", " ", "1", "B", "/", "s", " ", "0", ":", "0",
        ":", "1">>,
      \* a blank line
      <<" ">>,
      \* an error line that starts like a progress line whose byte figure
      \* holds no digit
      <<",", " ", "1", "%", " ", "1", "B", "/", "s", " ", "0", ":",
        "0", ":", "1", " ", "e", "r", "r", "o", "r">> }

\* A restore called with skip_farm and retry_count = 0 that has passed its
\* preflight and started its monitor: what follows is one call of run_rsync.
RsyncInit ==
    /\ dbRows \in RestoreTablePool
    /\ canon = NotCalled
    /\ blobs = {}
    /\ farm \in FarmPool
    /\ sanitize_pipes = FALSE
    /\ limit = 0
    /\ cursor = 1
    /\ processed = 0
    /\ created = 0
    /\ skipped = 0
    /\ farmErrors = 0
    /\ fpc = "idle"
    /\ rpc = "launching"
    /\ restore_dry_run \in BOOLEAN
    /\ retry_count = 0
    /\ inRetry = FALSE
    /\ attempt = 0
    /\ errors = <<>>
    /\ linesRead = 0
    /\ return_code = 0
    /\ monitorErrors = <<>>
    /\ attemptLog = <<>>
    /\ result = 0
    /\ monitor = NewMonitor
    /\ child = "none"
    /\ parseLog = <<>>
    /\ cmdCall = NoCmd
    /\ threadCall = NoAdvice
    /\ ThreadsIdle
    /\ destFiles = {}
    /\ readOnly = {}
    /\ canonical_paths = {}
    /\ cfgFile = NoFile
    /\ CleanupIdle
    /\ DeleteIdle

RsyncNext ==
    \/ \E outcome \in {"ok", "absent", "interrupted"} : RsyncLaunch(outcome)
    \/ \E raw \in RsyncLinePool : RsyncLine(raw)
    \/ \E code \in ExitCodes : RsyncExit(code)
    \/ RsyncInterrupt

SpecRsync == RsyncInit /\ [][RsyncNext]_vars

(***************************************************************************)
(* Command lines of run_rsync (SpecCmd)                                    *)
(***************************************************************************)

MaxExclude == 2   \* exclude patterns given to one call

\* Sources: without and with a trailing '/', and the empty string.
SourcePool == { <<"f">>, <<"f", "/">>, <<"f", "/", "g">>, <<>> }
DestPool2  == { <<"t">>, <<"t", "/">> }
ExcludePool == { <<"*", ".", "t">>, <<"x">> }

\* Every state the rest of the program is in while a command line is built.
OthersIdle ==
    /\ dbRows = <<>>
    /\ canon = NotCalled
    /\ destFiles = {}
    /\ readOnly = {}
    /\ canonical_paths = {}
    /\ cfgFile = NoFile
    /\ CleanupIdle
    /\ DeleteIdle
    /\ FarmIdle

CmdInit ==
    /\ cmdCall \in [called : {FALSE}, source : SourcePool, dest : DestPool2,
                    checksum : BOOLEAN, dry_run : BOOLEAN, delete : BOOLEAN,
                    exclude : ListsUpTo(ExcludePool, MaxExclude),
                    cmd : {<<>>}]
    /\ threadCall = NoAdvice
    /\ ThreadsIdle
    /\ rpc = "idle"
    /\ restore_dry_run = FALSE
    /\ retry_count = 0
    /\ inRetry = FALSE
    /\ attempt = 0
    /\ errors = <<>>
    /\ linesRead = 0
    /\ return_code = 0
    /\ monitorErrors = <<>>
    /\ attemptLog = <<>>
    /\ result = 0
    /\ monitor = NewMonitor
    /\ child = "none"
    /\ parseLog = <<>>
    /\ OthersIdle

CmdNext == RunRsyncBuildsCmd

SpecCmd == CmdInit /\ [][CmdNext]_vars

(***************************************************************************)
(* Specification of recommend_thread_count                                  *)
(***************************************************************************)

CpuPool == { 1, 2, 4, 8, 20 }

\* Mostly small files; mixed; nothing counted.
HistogramPool ==
    { [small_files |-> 5, medium_files |-> 2, large_files |-> 1],
      [small_files |-> 2, medium_files |-> 2, large_files |-> 1],
      [small_files |-> 0, medium_files |-> 0, large_files |-> 0] }

FsPool ==
    { <<>>, <<"e", "x", "t", "4">>, <<"N", "F", "S", "4">>,
      <<"f", "u", "s", "e", "b", "l", "k">> }

\* None, 0 and figures on both sides of the steps of the cap.
SpeedPool ==
    { UnknownSpeed, <<0>>, <<10>>, <<19>>, <<20>>, <<150>>, <<299>>,
      <<300>>, <<500>> }

ThreadsInit ==
    /\ threadCall \in [cpu_count : CpuPool, file_stats : HistogramPool,
                       dest_fs : FsPool, log : {<<>>}]
    /\ ThreadsIdle
    /\ cmdCall = NoCmd
    /\ parseLog = <<>>
    /\ rpc = "idle"
    /\ restore_dry_run = FALSE
    /\ retry_count = 0
    /\ inRetry = FALSE
    /\ attempt = 0
    /\ errors = <<>>
    /\ linesRead = 0
    /\ return_code = 0
    /\ monitorErrors = <<>>
    /\ attemptLog = <<>>
    /\ result = 0
    /\ monitor = NewMonitor
    /\ child = "none"
    /\ OthersIdle

ThreadsNext == \E speed \in SpeedPool : RecommendThreads(speed)

SpecThreads == ThreadsInit /\ [][ThreadsNext]_vars

(***************************************************************************)
(* Specification of the two threads of a transfer                          *)
(***************************************************************************)

\* Output lines of the child.
OutputPool ==
    {
      \* a progress line
      <<"7", " ", "5", "%", " ", "2", "K", "B", "/", "s", " ", "0", ":",
        "0", ":", "1">>,
      \* a transfer index after a file name
      <<"f", " ", "(", "x", "f", "r", "#", "5", ")">>,
      \* a transfer index alone
      <<"x", "f", "r", "#", "3">>,
      \* a summary line
      <<"t", "o", "t", "a", "l", " ", "s", "i", "z", "e", " ", "i", "s",
        " ", "9">>,
      \* an error line
      <<"E", "R", "R", "O", "R">>,
      \* a progress line whose byte figure holds no digit
      <<",", " ", "1", "%", " ", "1", "B", "/", "s", " ", "0", ":", "0",
        ":", "1">>,
      \* a blank line
      <<" ">> }

\* run_restore has started the monitor and run_rsync has launched the
\* child: the reading thread is at its loop, the background thread between
\* two rounds.
MonitorInit ==
    /\ lock = "free"
    /\ rdPc = "loop"
    /\ rdLine = <<>>
    /\ last_file_print = 0
    /\ lgPc = "sleeping"
    /\ status_line = NoStatus
    /\ statusLog = <<>>
    /\ accesses = {}
    /\ threadCall = NoAdvice
    /\ cmdCall = NoCmd
    /\ parseLog = <<>>
    /\ rpc = "idle"
    /\ restore_dry_run \in BOOLEAN
    /\ retry_count = 0
    /\ inRetry = FALSE
    /\ attempt = 1
    /\ errors = <<>>
    /\ linesRead = 0
    /\ return_code = 0
    /\ monitorErrors = <<>>
    /\ attemptLog = <<>>
    /\ result = 0
    /\ monitor = NewMonitor
    /\ child = "running"
    /\ OthersIdle

MonitorNext ==
    \/ \E raw \in OutputPool : ReaderReadLine(raw)
    \/ ReaderSectionSkipped
    \/ ReaderSectionRaises
    \/ ReaderAcquire
    \/ ReaderWriteRelease
    \/ ReaderPeek
    \/ \E code \in ExitCodes : ReaderEof(code)
    \/ LoggerAcquire
    \/ LoggerBuildRelease
    \/ LoggerWrite

SpecMonitor == MonitorInit /\ [][MonitorNext]_vars

(***************************************************************************)
(* Direct calls of parse_rsync_progress (SpecParse)                        *)
(***************************************************************************)

\* The parts of progress lines: a text and the number it stands for.
BytesPool   == { [text |-> <<"7">>, value |-> 7],
                 [text |-> <<"1", ",", "0", "4", "8">>, value |-> 1048] }
PercentPool == { [text |-> <<"5">>, value |-> 5],
                 [text |-> <<"1", "0", "0">>, value |-> 100] }
RatePool    == { [text |-> <<"3">>, value |-> [mant |-> 3, exp |-> 0]],
                 [text |-> <<"2", ".", "5", "0">>,
                  value |-> [mant |-> 25, exp |-> 1]] }
UnitPool    == { <<>>, <<"K">>, <<"M">>, <<"G">> }
EtaPool     == { <<"0", ":", "0", "0", ":", "1", "0">> }

ProgressInputs ==
    [bytes : BytesPool, percent : PercentPool, rate : RatePool,
     unit : UnitPool, eta : EtaPool]

\* '<bytes> <percent>% <rate><unit>B/s <h:mm:ss>' as rsync lays it out
ProgressLine(c) ==
    <<" ", " ">> \o c.bytes.text \o <<" ", " ">> \o c.percent.text
        \o <<"%", " ">> \o c.rate.text \o c.unit \o <<"B", "/", "s">>
        \o <<" ", " ">> \o c.eta

\* The parts of lines with a transfer index: what stands before the
\* marker, the index, what stands after it.
XfrBeforePool == { <<>>, <<"d", " ", "(">>,
                   <<",", " ", "1", "%", " ", "1", "B", "/", "s", " ", "0", ":", "0", ":", "1", " ", "(">> }
XfrIndexPool  == { [text |-> <<"3">>, value |-> 3],
                   [text |-> <<"1", "2">>, value |-> 12] }
XfrAfterPool  == { <<>>, <<",", " ", "x">> }

XfrInputs == [before : XfrBeforePool, index : XfrIndexPool,
              after : XfrAfterPool]

XfrLine(c) == c.before \o XfrPrefix \o c.index.text \o c.after

\* Lines that are a plain file name.
FileNameLines == { <<"d">>, <<"e", "/", "f", ".", "t">> }

\* Lines without any recognised shape: empty, blank, an error line.
OtherLines == { <<>>, <<" ", " ">>, <<"E", "R", "R", "O", "R">> }

ParseLinePool ==
    { ProgressLine(c) : c \in ProgressInputs }
        \cup { XfrLine(c) : c \in XfrInputs }
        \cup FileNameLines \cup OtherLines

\* A new monitor, and one that has recorded progress.
MonitorPool ==
    { NewMonitor,
      [bytes_transferred |-> 9, files_transferred |-> 5,
       percent_complete |-> 1,
       transfer_speed |-> [mant |-> 4, exp |-> 0, mult |-> 1],
       eta |-> <<"0", ":", "0", ":", "9">>, current_file |-> <<"c">>] }

ParseInit ==
    /\ monitor \in MonitorPool
    /\ monitorErrors = <<>>
    /\ parseLog = <<>>
    /\ cmdCall = NoCmd
    /\ threadCall = NoAdvice
    /\ ThreadsIdle
    /\ rpc = "idle"
    /\ restore_dry_run = FALSE
    /\ retry_count = 0
    /\ inRetry = FALSE
    /\ attempt = 0
    /\ errors = <<>>
    /\ linesRead = 0
    /\ return_code = 0
    /\ attemptLog = <<>>
    /\ result = 0
    /\ child = "none"
    /\ OthersIdle

ParseNext == \E line \in ParseLinePool : ParseLine(line)

SpecParse == ParseInit /\ [][ParseNext]_vars

(***************************************************************************)
(* Properties of the scan and of the cleanups (SpecCleanup)                *)
(***************************************************************************)

Matched   == scan_results.matched
Protected == scan_results.protected
Orphans   == scan_results.orphans

\* C1: the scan places every file of the walk in exactly one of matched,
\* protected, orphans: the lists are pairwise disjoint, hold every walked
\* file exactly once, and a file that matches a protect pattern and is
\* canonical is in protected only.
C1_ScanPartitions ==
    /\ Elems(Matched) \cap Elems(Protected) = {}
    /\ Elems(Matched) \cap Elems(Orphans) = {}
    /\ Elems(Protected) \cap Elems(Orphans) = {}
    /\ Elems(Matched) \cup Elems(Protected) \cup Elems(Orphans)
           = scanArgs.files
    /\ Len(Matched) + Len(Protected) + Len(Orphans)
           = Cardinality(scanArgs.files)
    /\ \A f \in scanArgs.files :
           matches_pattern(f, scanArgs.protect) /\ f \in canonical_paths
               => /\ InList(f, Protected)
                  /\ ~InList(f, Matched)
                  /\ ~InList(f, Orphans)

\* A scan that filled all three lists and met a canonical file that a
\* protect pattern matches.
C1_Witness ==
    /\ cpc # "idle"
    /\ Matched # <<>> /\ Protected # <<>> /\ Orphans # <<>>
    /\ \E f \in scanArgs.files :
           matches_pattern(f, scanArgs.protect) /\ f \in canonical_paths

\* C2: a destination file is in orphans iff it matches no protect pattern
\* and is not canonical; a file that matches no protect pattern and is
\* canonical is in matched.
C2_OrphanIff ==
    /\ Elems(Orphans) \subseteq scanArgs.files
    /\ \A f \in scanArgs.files :
           /\ InList(f, Orphans)
                  <=> (~matches_pattern(f, scanArgs.protect)
                       /\ f \notin canonical_paths)
           /\ (~matches_pattern(f, scanArgs.protect) /\ f \in canonical_paths)
                  => InList(f, Matched)

\* A scan that reported an orphan and a match next to a protected file.
C2_Witness ==
    /\ cpc # "idle"
    /\ Orphans # <<>>
    /\ \E f \in scanArgs.files :
           ~matches_pattern(f, scanArgs.protect) /\ f \in canonical_paths
    /\ \E f \in scanArgs.files : matches_pattern(f, scanArgs.protect)

\* The files the running cleanup removed.
Removed ==
    IF delResult.called /\ ~delResult.dry_run
    THEN delResult.before \ delResult.after
    ELSE {}

\* C3: every file a cleanup removes was classified orphan by its scan and
\* matches no pattern of the protect list in effect when the deletion list
\* was computed; a matched or protected file is never removed.
C3_OnlyUnprotectedOrphansRemoved ==
    \A f \in Removed :
        /\ InList(f, Orphans)
        /\ ~matches_pattern(f, config.protect)
        /\ ~InList(f, Matched)
        /\ ~InList(f, Protected)

\* A wizard that removed a file after the user protected a folder whose
\* orphans the cleanup patterns cover.
C3_Witness ==
    /\ cpc = "done"
    /\ Removed # {}
    /\ config.protect # scanArgs.protect
    /\ \E o \in Elems(Orphans) :
           /\ matches_pattern(o, config.cleanup)
           /\ matches_pattern(o, config.protect)
           /\ o \in destFiles

(***************************************************************************)
(* Properties of delete_orphans (SpecDelete)                               *)
(***************************************************************************)

\* C4: a dry run of delete_orphans removes no file: the tree after the
\* call is the tree before it.
C4_DryRunLeavesTree ==
    dryResult.called =>
        /\ dryResult.after = dryResult.before
        /\ (~realResult.called => destFiles = dryResult.before)

\* A dry run over a list that names a file a real run would remove.
C4_Witness ==
    /\ dryResult.called
    /\ ~realResult.called
    /\ \E p \in Elems(orphan_paths) :
           RemoveSucceeds(dryResult.before, readOnly, p)

\* C5: on the same list and the same starting tree, the dry run returns
\* the deleted count the real run returns.
C5_DryCountEqualsRealCount ==
    (dryResult.called /\ realResult.called
         /\ dryResult.before = realResult.before)
        => dryResult.deleted = realResult.deleted

\* The removals of the real run that fail, by position in the list.
FailedAt(i) ==
    \/ orphan_paths[i] \in readOnly
    \/ orphan_paths[i] \notin realResult.before
    \/ \E j \in 1..(i - 1) : orphan_paths[j] = orphan_paths[i]

\* C6: a real run attempts every path of the list: a failure is counted in
\* errors and the later paths are still removed, so deleted + errors is
\* the length of the list.
C6_EveryPathAttempted ==
    realResult.called =>
        /\ realResult.deleted + realResult.errors = Len(orphan_paths)
        /\ realResult.errors
               = Cardinality({i \in 1..Len(orphan_paths) : FailedAt(i)})
        /\ \A i \in 1..Len(orphan_paths) :
               orphan_paths[i] \in realResult.after
                   => orphan_paths[i] \in readOnly

\* A real run whose first removal failed and whose second removed a file.
C6_Witness ==
    /\ realResult.called
    /\ Len(orphan_paths) >= 2
    /\ FailedAt(1)
    /\ orphan_paths[2] \in realResult.before \ realResult.after

(***************************************************************************)
(* Properties of the path reconstruction (SpecPaths)                       *)
(***************************************************************************)

\* The k-th ancestor of a row (0 or an unknown id when the chain ends).
RECURSIVE NthParent(_, _, _)
NthParent(table, id, k) ==
    IF k = 0 \/ id \notin 1..Len(table) THEN id
    ELSE NthParent(table, table[id].parentID, k - 1)

\* No row is its own ancestor.
Acyclic(table) ==
    \A i \in 1..Len(table) :
        \A k \in 1..Len(table) : NthParent(table, i, k) # i

\* A row is a file iff its contentID is neither NULL nor empty.
ContentBearing(row) == row.contentID # SqlNull /\ row.contentID # <<>>

\* The names of a row's ancestors, outermost first, then its own name.
RECURSIVE ChainOf(_, _)
ChainOf(table, id) ==
    IF id \notin 1..Len(table) THEN <<>>
    ELSE Append(ChainOf(table, table[id].parentID), table[id].name)

\* The chain joined by '/', the root marker's name dropped only where it
\* is the leading component.
ExpectedPath(table, id) ==
    LET chain == ChainOf(table, id)
        root  == RootDir(table)
    IN  JoinSep(IF root # <<>> /\ chain[1] = root THEN Tail(chain) ELSE chain,
                "/")

\* C7: for an acyclic table, the path resolved for a content-bearing row is
\* the names of its ancestors, outermost first, then its own name, joined
\* by '/', with the root marker's name removed only as the leading
\* component.
C7_PathIsAncestorChain ==
    (canon.called /\ Acyclic(dbRows)) =>
        \A i \in 1..Len(dbRows) :
            ContentBearing(dbRows[i]) =>
                /\ CanonRelPath(dbRows, i).rel_path = ExpectedPath(dbRows, i)
                /\ ExpectedPath(dbRows, i) # <<>>
                       => ExpectedPath(dbRows, i) \in canon.paths

(***************************************************************************)
(* Properties of the farm build (SpecFarm)                                 *)
(***************************************************************************)

\* The paths of the farm entries that are symlinks.
LinkPaths ==
    { path \in DOMAIN farm : farm[path].kind = "link" /\ farm[path].row > 0 }

\* The paths get_canonical_paths_from_db may take from content-bearing rows.
ContentBearingPaths(table) ==
    { CanonRelPath(table, i).rel_path :
        i \in { j \in 1..Len(table) : ContentBearing(table[j]) } }

\* C8: a row whose contentID is NULL or the empty string is a directory
\* node: it gives no path to the set get_canonical_paths_from_db returns, the
\* farm build creates no entry for it, and the build does not fail because
\* of it.
C8_DirectoryRowsInert ==
    /\ get_canonical_paths_from_db(dbRows).paths
           \subseteq ContentBearingPaths(dbRows)
    /\ \A path \in LinkPaths : ContentBearing(dbRows[farm[path].row])
    /\ fpc # "raised"

C10_SuccessNeedsZeroStatusAndNoErrors ==
    rpc = "returned" =>
        (result = 0 <=>
            /\ attemptLog # <<>>
            /\ attemptLog[Len(attemptLog)].status = 0
            /\ monitorErrors = <<>>)

\* A restore has returned non-zero although its last attempt exited with
\* status 0, because the monitor's error list is not empty.
C10_Witness ==
    /\ rpc = "returned"
    /\ attemptLog # <<>>
    /\ attemptLog[Len(attemptLog)].status = 0
    /\ monitorErrors # <<>>
    /\ result # 0

\* The transfer attempts run_restore has launched so far: those that have
\* returned and the one whose output is being read.
Launched == Len(attemptLog) + (IF rpc = "reading" THEN 1 ELSE 0)

\* C11: run_restore launches the transfer tool at most 1 + retry_count
\* times; a retry is launched only after an attempt that returned a
\* non-empty error list and never in dry-run mode; after an attempt that
\* returned an empty error list no further attempt is launched.
C11_RetriesBoundedAndOnlyAfterErrors ==
    /\ Launched <= 1 + retry_count
    /\ Launched >= 2 => ~restore_dry_run
    /\ \A k \in 1..Len(attemptLog) :
           attemptLog[k].errors = <<>> =>
               /\ k = Len(attemptLog)
               /\ rpc \notin {"launching", "reading"}

\* A restore has used every retry it was given, each after an attempt with
\* errors, and has returned.
C11_Witness ==
    /\ rpc = "returned"
    /\ retry_count = MaxRetries
    /\ Len(attemptLog) = 1 + retry_count
    /\ \A k \in 1..retry_count : attemptLog[k].errors # <<>>

(***************************************************************************)
(* Properties of run_rsync (SpecRsync)                                     *)
(***************************************************************************)

\* C12: an interrupt while the child's output is read terminates the
\* child, returns status 130 with the error lines collected so far, and
\* leaves the monitor's progress fields and error list as they were.
C12_InterruptKeepsProgress ==
    [][RsyncInterrupt =>
          /\ child = "running" /\ child' = "terminated"
          /\ return_code' = 130
          /\ attemptLog'[Len(attemptLog')] =
                 [status |-> 130, errors |-> errors]
          /\ monitor' = monitor
          /\ monitorErrors' = monitorErrors]_vars

\* An attempt was interrupted after it had recorded progress and an error
\* line: it returned 130 with that line and its child is terminated.
C12_Witness ==
    /\ attemptLog # <<>>
    /\ attemptLog[Len(attemptLog)].status = 130
    /\ attemptLog[Len(attemptLog)].errors # <<>>
    /\ child = "terminated"
    /\ monitor.bytes_transferred > 0

(***************************************************************************)
(* Further properties of run_restore (SpecRestore)                         *)
(***************************************************************************)

\* C13: when the transfer tool cannot be launched, run_rsync raises to its
\* caller: no (status, errors) result is returned for that launch, so no
\* retry follows it.
C13_AbsentToolRaises ==
    \A k \in 1..Len(attemptLog) : attemptLog[k].errors # <<PopenFailure>>

(***************************************************************************)
(* Further properties of the farm build (SpecFarm)                         *)
(***************************************************************************)

\* The rows the build has taken from its cursor.
ProcessedRows ==
    { ContentCursor(dbRows)[k] : k \in 1..(cursor - 1) }

\* The rows whose blob was looked for and found at neither place.
MissingRows ==
    { id \in ProcessedRows :
        /\ FarmRelPath(dbRows, id, sanitize_pipes).rel_path # <<>>
        /\ dbRows[id].contentID # <<>>
        /\ ResolveBlob(blobs, dbRows[id].contentID) = <<>> }

\* The rows with a blob whose farm path is held by a regular file.
OccupiedRows ==
    { id \in ProcessedRows \ MissingRows :
        /\ FarmRelPath(dbRows, id, sanitize_pipes).rel_path # <<>>
        /\ dbRows[id].contentID # <<>>
        /\ Components(FarmRelPath(dbRows, id, sanitize_pipes).rel_path)
               \in DOMAIN farm
        /\ farm[Components(FarmRelPath(dbRows, id,
                                       sanitize_pipes).rel_path)].kind
               = "file" }

\* C14: a row whose farm path is held by a non-symlink file leaves that
\* file as it is, gets no symlink, and is counted in errors; the build goes
\* on with the next row.
C14_OccupiedPathCountsAsError ==
    fpc = "returned" => farmErrors >= Cardinality(OccupiedRows)

\* C15: a row whose blob exists at neither candidate place gets no entry
\* and is counted as missing, a count of its own: the count the build
\* gives for such rows holds nothing but them.
C15_MissingBlobCountedApart ==
    fpc = "returned" =>
        /\ \A path \in LinkPaths : farm[path].row \notin MissingRows
        /\ skipped = Cardinality(MissingRows)

\* C16: with limit N > 0 the build processes at most N rows and creates at
\* most N entries; with limit 0 it processes every row of its cursor.
C16_LimitCapsProcessedRows ==
    /\ limit > 0 => processed <= limit /\ created <= limit
    /\ (limit = 0 /\ fpc = "returned")
           => processed = Len(ContentCursor(dbRows))

(***************************************************************************)
(* Properties of the command line (SpecCmd)                                *)
(***************************************************************************)

\* The number of arguments of cmd equal to arg.
CountArg(cmd, arg) == Cardinality({ i \in 1..Len(cmd) : cmd[i] = arg })

\* C17: the command line always holds the progress flag; it holds
\* --checksum, --dry-run and --delete exactly when the option is true; it
\* holds one '--exclude <pattern>' pair per exclude pattern, in order; it
\* ends with the source and the destination, the source ending with '/',
\* which is appended if and only if it was missing.
C17_CommandLine ==
    cmdCall.called =>
        LET cmd == cmdCall.cmd
            n   == Len(cmd)
            k   == Len(cmdCall.exclude)
        IN  /\ CountArg(cmd, ProgressFlag) = 1
            /\ CountArg(cmd, ChecksumFlag) = (IF cmdCall.checksum THEN 1 ELSE 0)
            /\ CountArg(cmd, DryRunFlag) = (IF cmdCall.dry_run THEN 1 ELSE 0)
            /\ CountArg(cmd, DeleteFlag) = (IF cmdCall.delete THEN 1 ELSE 0)
            /\ CountArg(cmd, ExcludeFlag) = k
            /\ n >= 2 * k + 5
            /\ \A j \in 1..k :
                   /\ cmd[n - 2 - 2 * k + 2 * j - 1] = ExcludeFlag
                   /\ cmd[n - 2 - 2 * k + 2 * j] = cmdCall.exclude[j]
            /\ cmd[n] = cmdCall.dest
            /\ cmd[n - 1][Len(cmd[n - 1])] = "/"
            /\ cmd[n - 1] \in { cmdCall.source, cmdCall.source \o <<"/">> }
            /\ cmd[n - 1] = cmdCall.source
                   <=> (cmdCall.source # <<>>
                        /\ cmdCall.source[Len(cmdCall.source)] = "/")

\* A command line was built for a source that already ends with '/', with
\* two exclude patterns and --delete.
C17_Witness ==
    /\ cmdCall.called
    /\ cmdCall.source = <<"f", "/">>
    /\ Len(cmdCall.exclude) = 2
    /\ cmdCall.exclude[1] # cmdCall.exclude[2]
    /\ cmdCall.delete
    /\ ~cmdCall.checksum

(***************************************************************************)
(* Properties of parse_rsync_progress (SpecParse)                          *)
(***************************************************************************)

RECURSIVE Pow10(_)
Pow10(n) == IF n = 0 THEN 1 ELSE 10 * Pow10(n - 1)

\* a and b, each mant / 10^exp, are the same number.
SameNumber(a, b) == a.mant * Pow10(b.exp) = b.mant * Pow10(a.exp)

\* The factor a unit letter stands for: 1, 1024, 1024^2, 1024^3.
UnitFactor(unit) ==
    CASE unit = <<>> -> 1
      [] unit = <<"K">> -> 1024
      [] unit = <<"M">> -> 1048576
      [] unit = <<"G">> -> 1073741824

\* C18: parsing a progress line sets bytes_transferred to the byte figure
\* without its commas, percent_complete to the percent, transfer_speed to
\* the rate times 1, 1024, 1024^2 or 1024^3 for unit '', K, M or G, and eta
\* to the eta text; files_transferred, current_file and the error list stay
\* as they were.
C18_ProgressLineSetsFields ==
    \A k \in 1..Len(parseLog) :
        \A c \in ProgressInputs :
            parseLog[k].line = ProgressLine(c) =>
                /\ ~parseLog[k].raised
                /\ parseLog[k].after.bytes_transferred = c.bytes.value
                /\ parseLog[k].after.percent_complete = c.percent.value
                /\ SameNumber(parseLog[k].after.transfer_speed, c.rate.value)
                /\ parseLog[k].after.transfer_speed.mult = UnitFactor(c.unit)
                /\ parseLog[k].after.eta = c.eta
                /\ parseLog[k].after.files_transferred
                       = parseLog[k].before.files_transferred
                /\ parseLog[k].after.current_file
                       = parseLog[k].before.current_file
                /\ parseLog[k].errors_after = parseLog[k].errors_before

\* A progress line with unit G and a byte figure with a comma was parsed
\* into a monitor that had a file count and a current file.
C18_Witness ==
    \E k \in 1..Len(parseLog) :
        \E c \in ProgressInputs :
            /\ parseLog[k].line = ProgressLine(c)
            /\ c.unit = <<"G">>
            /\ c.bytes.value = 1048
            /\ c.rate.value.exp = 1
            /\ parseLog[k].before.files_transferred = 5
            /\ parseLog[k].before.current_file # <<>>

\* C19: after parsing a line that holds the marker xfr#N, files_transferred
\* is N whatever it was before; a line without the marker, an empty or
\* blank one included, leaves files_transferred as it was.
C19_XfrOverwritesFileCount ==
    \A k \in 1..Len(parseLog) :
        /\ \A c \in XfrInputs :
               parseLog[k].line = XfrLine(c) =>
                   parseLog[k].after.files_transferred = c.index.value
        /\ parseLog[k].line \in
               FileNameLines \cup OtherLines
                   \cup { ProgressLine(c) : c \in ProgressInputs }
               => parseLog[k].after.files_transferred
                      = parseLog[k].before.files_transferred

\* C20: parsing a line that is a plain file name sets current_file to that
\* line.
C20_FileNameSetsCurrentFile ==
    \A k \in 1..Len(parseLog) :
        parseLog[k].line \in FileNameLines =>
            parseLog[k].after.current_file = parseLog[k].line

(***************************************************************************)
(* Further properties of run_rsync (SpecRsync)                             *)
(***************************************************************************)

\* The line holds 'error' or 'failed', in any case of letters.
MentionsFailure(line) ==
    \E i \in 1..Len(line) :
        \/ OccursAt(StrLower(line), <<"e", "r", "r", "o", "r">>, i)
        \/ OccursAt(StrLower(line), <<"f", "a", "i", "l", "e", "d">>, i)

\* C21: during an attempt, a non-empty output line that holds 'error' or
\* 'failed' is appended once to the error list the attempt returns and once
\* to the monitor's error list, in output order; any other line is
\* appended to neither list.
C21_ErrorLinesRecordedOnce ==
    [][\A raw \in RsyncLinePool :
          RsyncLine(raw) =>
              IF Strip(raw) # <<>> /\ MentionsFailure(Strip(raw))
              THEN /\ errors' = Append(errors, Strip(raw))
                   /\ monitorErrors' = Append(monitorErrors, Strip(raw))
              ELSE /\ errors' = errors
                   /\ monitorErrors' = monitorErrors]_vars

(***************************************************************************)
(* Properties of recommend_thread_count (SpecThreads)                      *)
(***************************************************************************)

\* s1 <= s2 as write throughputs, None and 0 being the lowest value.
SpeedAtMost(s1, s2) ==
    LET v1 == IF s1 = UnknownSpeed THEN 0 ELSE s1[1]
        v2 == IF s2 = UnknownSpeed THEN 0 ELSE s2[1]
    IN  v1 <= v2

\* C22: for fixed core count, histogram and filesystem tag, the
\* recommendation is monotone in the write throughput: of two calls with
\* throughputs s1 <= s2 (0 or unknown being the lowest value), the one with
\* s2 does not recommend fewer threads.
C22_MonotoneInThroughput ==
    \A i, j \in 1..Len(threadCall.log) :
        SpeedAtMost(threadCall.log[i].disk_speed_MBps,
                    threadCall.log[j].disk_speed_MBps)
            => threadCall.log[i].rec.final <= threadCall.log[j].rec.final

(***************************************************************************)
(* Termination of the parent walks (SpecFarm)                              *)
(***************************************************************************)

\* C23: resolving the path of a content-bearing row terminates for every
\* metadata table, tables whose parentID links form a cycle included, in
\* get_canonical_paths_from_db and in create_symlink_farm_streaming:
\* neither walk goes on for ever on the table of the state.
C23_PathResolutionTerminates ==
    /\ fpc # "hung"
    /\ ~get_canonical_paths_from_db(dbRows).hangs

(***************************************************************************)
(* Replacement of symlinks by the farm build (SpecFarm)                    *)
(***************************************************************************)

\* The row the loop of the build is at.
RowAtCursor == ContentCursor(dbRows)[cursor]

\* The farm path of the row the loop is at, as path components.
PathAtCursor ==
    Components(FarmRelPath(dbRows, RowAtCursor, sanitize_pipes).rel_path)

\* The relative path of the row the loop is at names an entry: it is not
\* empty and does not end in '/'.
NamesEntry(rel_path) ==
    /\ rel_path # <<>>
    /\ rel_path[Len(rel_path)] # "/"

\* The loop handles a row (the limit does not stop it) whose path
\* resolves and names an entry, whose blob is found, and whose farm path
\* holds a symlink.
RowMeetsSymlink ==
    /\ fpc = "building"
    /\ ~(limit > 0 /\ created >= limit)
    /\ ~FarmRelPath(dbRows, RowAtCursor, sanitize_pipes).diverges
    /\ NamesEntry(FarmRelPath(dbRows, RowAtCursor, sanitize_pipes).rel_path)
    /\ dbRows[RowAtCursor].contentID # <<>>
    /\ ResolveBlob(blobs, dbRows[RowAtCursor].contentID) # <<>>
    /\ PathAtCursor \in DOMAIN farm
    /\ farm[PathAtCursor].kind = "link"

C25_EveryAccessHoldsLock ==
    \A a \in accesses : a.locked

\* C25 amended: every write of the shared transfer state, and every read
\* of it by the background thread, happens while the thread holds the
\* monitor's lock; the only accesses made without the lock are the reads of
\* files_transferred and current_file that the thread reading the output
\* (the only writer) makes for its periodic print.
C25_WritesAndLoggerReadsHoldLock ==
    /\ \A a \in accesses :
           ~a.locked => /\ a.thread = "reader"
                        /\ a.op = "read"
                        /\ a.field \in { "files_transferred", "current_file" }
    /\ lgPc = "building" => lock = "logger"

\* The background thread has written a status line that shows figures the
\* reading thread had written, and the reading thread has made its
\* periodic print.
C25_Witness ==
    /\ Len(statusLog) = 2
    /\ statusLog[2].files = 5
    /\ statusLog[2].bytes = 7
    /\ last_file_print = 5
    /\ [thread |-> "reader", op |-> "read", field |-> "current_file",
        locked |-> FALSE] \in accesses
    /\ [thread |-> "logger", op |-> "read", field |-> "eta",
        locked |-> TRUE] \in accesses

(***************************************************************************)
(* Folder statistics of a scan (SpecCleanup)                               *)
(***************************************************************************)

\* C26: after a scan, for every top-level folder F, folder_stats[F].in_db
\* is true iff at least one destination file under F has its relative path
\* in the canonical set, whether or not a protect pattern matches that
\* file.
C26_InDbIffCanonicalFileBelow ==
    \A F \in DOMAIN scan_results.folder_stats :
        scan_results.folder_stats[F].in_db
            <=> \E f \in scanArgs.files :
                    /\ TopFolder(f) = F
                    /\ NormalizeSep(f) \in canonical_paths

(***************************************************************************)
(* Retries and the result of run_restore (SpecRestore)                     *)
(***************************************************************************)

\* C27: if the last transfer attempt of run_restore exits with status 0 and
\* emits no error line, run_restore returns 0, also when earlier attempts
\* of the same run reported error lines.
C27_SuccessfulRetryMakesSuccess ==
    (/\ rpc = "returned"
     /\ attemptLog # <<>>
     /\ attemptLog[Len(attemptLog)].status = 0
     /\ attemptLog[Len(attemptLog)].errors = <<>>)
        => result = 0

\* C28: after a transfer attempt that was interrupted (run_rsync returned
\* status 130), run_restore launches no further attempt, whatever error
\* lines were collected before the interruption: an attempt with status
\* 130 is the last one launched.
C28_NoAttemptAfterInterrupt ==
    \A k \in 1..Len(attemptLog) :
        attemptLog[k].status = InterruptStatus =>
            /\ k = Len(attemptLog)
            /\ rpc \notin {"launching", "reading"}

(***************************************************************************)
(* The default configuration across cleanup runs (SpecCleanup)             *)
(***************************************************************************)

C30_CreatedCountsSymlinks ==
    fpc = "returned" =>
        created = Cardinality({ path \in DOMAIN farm :
                                  farm[path].kind = "link" })

=============================================================================
